---- MODULE Spec2Model ----
(***************************************************************************)
(* natman-go: reconciliation of the declarative link configuration with    *)
(* the live iptables / ip6tables rule tables (NAT44, NAT66, NETMAP) and    *)
(* the radvd configuration.  Rule texts, listing lines and commands are    *)
(* TLA+ strings; the Go string functions the code uses are operators over  *)
(* them.                                                                   *)
(***************************************************************************)
EXTENDS Integers, Sequences, FiniteSets, TLC

(***************************************************************************)
(* Go "strings" package, as far as the code uses it.                       *)
(***************************************************************************)
IsSpace(c) == c \in {" ", "\t", "\n"}

CharAt(s, i) == SubSeq(s, i, i)

\* strings.HasPrefix
HasPrefix(s, p) == Len(s) >= Len(p) /\ SubSeq(s, 1, Len(p)) = p

\* strings.HasSuffix
HasSuffix(s, p) == Len(s) >= Len(p) /\ SubSeq(s, Len(s) - Len(p) + 1, Len(s)) = p

\* strings.Index, 1-based; 0 when sub does not occur
Index(s, sub) ==
    LET idx == {i \in 1..(Len(s) - Len(sub) + 1) : SubSeq(s, i, i + Len(sub) - 1) = sub}
    IN  IF idx = {} THEN 0 ELSE CHOOSE i \in idx : \A j \in idx : i <= j

\* strings.Contains
Contains(s, sub) == Index(s, sub) # 0

\* strings.Replace(s, old, new, 1)
Replace1(s, old, new) ==
    LET i == Index(s, old)
    IN  IF i = 0 THEN s
        ELSE SubSeq(s, 1, i - 1) \o new \o SubSeq(s, i + Len(old), Len(s))

\* the sequence f with every element evaluated once (TLC evaluates
\* [k \in 1..n |-> e] anew at every application)
Strict(f) == f \o <<>>

\* the k-th smallest member of a finite set of numbers
Kth(S, k) == CHOOSE i \in S : Cardinality({j \in S : j <= i}) = k

RECURSIVE ConcatRange(_, _, _)
\* parts[lo] \o ... \o parts[hi], halving the range
ConcatRange(parts, lo, hi) ==
    IF lo > hi THEN ""
    ELSE IF lo = hi THEN parts[lo]
    ELSE LET mid == (lo + hi) \div 2
         IN  ConcatRange(parts, lo, mid) \o ConcatRange(parts, mid + 1, hi)

\* strings.Fields: the maximal runs of non-space characters
Fields(s) ==
    LET starts == {i \in 1..Len(s) : ~IsSpace(CharAt(s, i)) /\ (i = 1 \/ IsSpace(CharAt(s, i - 1)))}
        ends   == {i \in 1..Len(s) : ~IsSpace(CharAt(s, i)) /\ (i = Len(s) \/ IsSpace(CharAt(s, i + 1)))}
    IN  Strict([k \in 1..Cardinality(starts) |-> SubSeq(s, Kth(starts, k), Kth(ends, k))])

\* strings.Join
Join(parts, sep) ==
    ConcatRange(Strict([k \in 1..Len(parts) |-> IF k = 1 THEN parts[k] ELSE sep \o parts[k]]), 1, Len(parts))

\* strings.TrimRight(s, cutset) for a one-character cutset
TrimRight(s, c) ==
    LET keep == {i \in 1..Len(s) : CharAt(s, i) # c}
    IN  IF keep = {} THEN "" ELSE SubSeq(s, 1, CHOOSE i \in keep : \A j \in keep : j <= i)

\* strings.TrimSpace
TrimSpace(s) ==
    LET keep == {i \in 1..Len(s) : ~IsSpace(CharAt(s, i))}
    IN  IF keep = {} THEN ""
        ELSE SubSeq(s, CHOOSE i \in keep : \A j \in keep : i <= j,
                       CHOOSE i \in keep : \A j \in keep : j <= i)

\* strings.Split(s, sep) for a one-character sep
Split(s, sep) ==
    LET cuts == {i \in 1..Len(s) : CharAt(s, i) = sep}
        n    == Cardinality(cuts)
        from(k) == IF k = 1 THEN 1 ELSE Kth(cuts, k - 1) + 1
        to(k)   == IF k = n + 1 THEN Len(s) ELSE Kth(cuts, k) - 1
    IN  Strict([k \in 1..(n + 1) |-> SubSeq(s, from(k), to(k))])

LowerChar(c) ==
    CASE c = "A" -> "a" [] c = "B" -> "b" [] c = "C" -> "c" [] c = "D" -> "d"
      [] c = "E" -> "e" [] c = "F" -> "f" [] c = "G" -> "g" [] c = "H" -> "h"
      [] c = "I" -> "i" [] c = "J" -> "j" [] c = "K" -> "k" [] c = "L" -> "l"
      [] c = "M" -> "m" [] c = "N" -> "n" [] c = "O" -> "o" [] c = "P" -> "p"
      [] c = "Q" -> "q" [] c = "R" -> "r" [] c = "S" -> "s" [] c = "T" -> "t"
      [] c = "U" -> "u" [] c = "V" -> "v" [] c = "W" -> "w" [] c = "X" -> "x"
      [] c = "Y" -> "y" [] c = "Z" -> "z" [] OTHER -> c

\* strings.ToLower
ToLower(s) == ConcatRange(Strict([k \in 1..Len(s) |-> LowerChar(CharAt(s, k))]), 1, Len(s))

(***************************************************************************)
(* Small helpers over sequences.                                           *)
(***************************************************************************)
Range(f) == {f[i] : i \in DOMAIN f}

Max(S) == CHOOSE m \in S : \A n \in S : n <= m

Min(S) == CHOOSE m \in S : \A n \in S : m <= n

\* every ordering of a finite set: the orders a Go map iteration may take
Perms(S) == {q \in [1..Cardinality(S) -> S] : \A i, j \in 1..Cardinality(S) : q[i] = q[j] => i = j}

RECURSIVE Flatten(_)
Flatten(ss) == IF Len(ss) = 0 THEN <<>> ELSE Head(ss) \o Flatten(Tail(ss))

(***************************************************************************)
(* Configuration model (config.Config, link.Link, netmap6.Netmap6).        *)
(***************************************************************************)
\* a nil *Nat44Config / *Nat66Config
NoNat == [present |-> FALSE, Enabled |-> FALSE, MssClamping |-> FALSE, Mss |-> 0, Origins |-> <<>>]

NatCfg(enabled, clamp, mss, origins) ==
    [present |-> TRUE, Enabled |-> enabled, MssClamping |-> clamp, Mss |-> mss, Origins |-> origins]

\* a nil *RadvRoute
NoRadvRoute == [present |-> FALSE, Preference |-> "", Metric |-> 0, Lifetime |-> 0]

\* netmap6.NewNetmap6: a pair list entry with fewer than two elements is
\* left as the zero MapPair; otherwise element 0 is the public and element 1
\* the private address, and an entry of four elements or more has the
\* advertisement annotation of elements 2 (preference) and 3 (lifetime)
NewNetmap6(name, c) ==
    [Name    |-> name,
     Enabled |-> c.Enabled,
     PfxPub  |-> c.PfxPub,
     PfxPriv |-> c.PfxPriv,
     Maps    |-> Strict([i \in 1..Len(c.Maps) |->
                    IF Len(c.Maps[i]) < 2
                    THEN [Public |-> "", Private |-> "", Radv |-> NoRadvRoute]
                    ELSE [Public |-> c.Maps[i][1], Private |-> c.Maps[i][2],
                          Radv |-> IF Len(c.Maps[i]) >= 4
                                   THEN [present |-> TRUE, Preference |-> c.Maps[i][3],
                                         Metric |-> 0, Lifetime |-> c.Maps[i][4]]
                                   ELSE NoRadvRoute]])]

\* link.NewLink
NewLink(name, c) ==
    [Name    |-> name,
     Netmap6 |-> [s \in DOMAIN c.Netmap6 |-> NewNetmap6(s, c.Netmap6[s])],
     Nat44   |-> c.Nat44,
     Nat66   |-> c.Nat66]

\* link.BuildLinks
BuildLinks(c) == [l \in DOMAIN c.links |-> NewLink(l, c.links[l])]

(***************************************************************************)
(* Rule compiler.                                                          *)
(***************************************************************************)
\* netmap6.SimpleConcatAddress
SimpleConcatAddress(addressPart, prefix) ==
    IF prefix = "" THEN addressPart
    ELSE LET withCidr(parts) == parts[1] \o "/" \o parts[2]
         IN  TrimRight(prefix, ":") \o ":"
             \o (IF Contains(addressPart, "/") THEN withCidr(Split(addressPart, "/"))
                 ELSE addressPart)

\* strings.Count(s, sub): occurrences that do not overlap, counted from the left
RECURSIVE Count(_, _)
Count(s, sub) ==
    IF Index(s, sub) = 0 THEN 0
    ELSE 1 + Count(SubSeq(s, Index(s, sub) + Len(sub), Len(s)), sub)

DigitValue(c) ==
    CASE c = "0" -> 0 [] c = "1" -> 1 [] c = "2" -> 2 [] c = "3" -> 3 [] c = "4" -> 4
      [] c = "5" -> 5 [] c = "6" -> 6 [] c = "7" -> 7 [] c = "8" -> 8 [] c = "9" -> 9
      [] OTHER -> -1

RECURSIVE DecimalValue(_, _, _)
DecimalValue(s, i, acc) ==
    IF i > Len(s) THEN acc ELSE DecimalValue(s, i + 1, 10 * acc + DigitValue(CharAt(s, i)))

\* strconv.Atoi: an optional sign, then at least one digit and digits only
Atoi(s) ==
    LET signed == Len(s) > 0 /\ CharAt(s, 1) \in {"+", "-"}
        digits == IF signed THEN SubSeq(s, 2, Len(s)) ELSE s
    IN  IF Len(digits) = 0 \/ \E i \in 1..Len(digits) : DigitValue(CharAt(digits, i)) < 0
        THEN [ok |-> FALSE, value |-> 0]
        ELSE [ok |-> TRUE,
              value |-> IF signed /\ CharAt(s, 1) = "-" THEN 0 - DecimalValue(digits, 1, 0)
                        ELSE DecimalValue(digits, 1, 0)]

\* (c >= '0' && c <= '9') || (c >= 'a' && c <= 'f') || (c >= 'A' && c <= 'F')
IsHexChar(c) ==
    c \in {"0", "1", "2", "3", "4", "5", "6", "7", "8", "9",
           "a", "b", "c", "d", "e", "f", "A", "B", "C", "D", "E", "F"}

\* the segments may have any length
isValidIPv6AddressFormatAnyLength(ipPart) ==
    LET segmentsOk(segments) ==
            /\ IF Contains(ipPart, "::")
               THEN Cardinality({i \in 1..Len(segments) : segments[i] # ""}) <= 7
               ELSE Len(segments) = 8
            /\ \A i \in 1..Len(segments) :
                   \A j \in 1..Len(segments[i]) : IsHexChar(CharAt(segments[i], j))
    IN  /\ Contains(ipPart, ":")
        /\ ~Contains(ipPart, ":::")
        /\ Count(ipPart, "::") <= 1
        /\ segmentsOk(Split(ipPart, ":"))

\* netmap6.isValidIPv6AddressFormat
isValidIPv6AddressFormat(ipPart) ==
    LET segmentsOk(segments) ==
            /\ IF Contains(ipPart, "::")
               THEN Cardinality({i \in 1..Len(segments) : segments[i] # ""}) <= 7
               ELSE Len(segments) = 8
            /\ \A i \in 1..Len(segments) :
                   segments[i] = "" \/
                       /\ Len(segments[i]) <= 4
                       /\ \A j \in 1..Len(segments[i]) : IsHexChar(CharAt(segments[i], j))
    IN  /\ Contains(ipPart, ":")
        /\ ~Contains(ipPart, ":::")
        /\ Count(ipPart, "::") <= 1
        /\ segmentsOk(Split(ipPart, ":"))

\* netmap6.isValidIPv6Address
isValidIPv6Address(addr) ==
    LET cidr(parts) ==
            /\ Len(parts) = 2
            /\ Atoi(parts[2]).ok /\ Atoi(parts[2]).value >= 0 /\ Atoi(parts[2]).value <= 128
            /\ isValidIPv6AddressFormat(parts[1])
    IN  IF addr = "" THEN FALSE
        ELSE IF Contains(addr, "/") THEN cidr(Split(addr, "/"))
        ELSE isValidIPv6AddressFormat(addr)

\* the outbound rule with source and target exchanged
PostroutingRuleInbound(iface, privateAddr, publicAddr) ==
    "ip6tables -t nat -A POSTROUTING -o " \o iface \o " -s " \o publicAddr
        \o " -j NETMAP --to " \o privateAddr

\* the two rules of one mapping pair, as fmt.Sprintf builds them
PostroutingRule(iface, privateAddr, publicAddr) ==
    "ip6tables -t nat -A POSTROUTING -o " \o iface \o " -s " \o privateAddr
        \o " -j NETMAP --to " \o publicAddr

PreroutingRule(iface, publicAddr, privateAddr) ==
    "ip6tables -t nat -A PREROUTING -i " \o iface \o " -d " \o publicAddr
        \o " -j NETMAP --to " \o privateAddr

RECURSIVE MappingRules(_, _, _)
MappingRules(n, iface, i) ==
    IF i > Len(n.Maps) THEN <<>>
    ELSE LET mapping == n.Maps[i]
             pair(publicAddr, privateAddr) ==
                 <<PostroutingRule(iface, privateAddr, publicAddr),
                   PreroutingRule(iface, publicAddr, privateAddr)>>
         IN  (IF mapping.Public = "" \/ mapping.Private = ""
              THEN <<>>
              ELSE pair(SimpleConcatAddress(mapping.Public, n.PfxPub),
                        SimpleConcatAddress(mapping.Private, n.PfxPriv)))
             \o MappingRules(n, iface, i + 1)

\* netmap6.(*Netmap6).GenerateIp6tablesRules
GenerateIp6tablesRules(n, interfaceName) ==
    IF ~n.Enabled \/ interfaceName = "" THEN <<>> ELSE MappingRules(n, interfaceName, 1)

RECURSIVE OriginRules(_, _, _, _)
OriginRules(cmd, interfaceName, origins, i) ==
    IF i > Len(origins) THEN <<>>
    ELSE (IF origins[i] # ""
          THEN <<cmd \o " -t nat -A POSTROUTING -s " \o origins[i] \o " -o " \o interfaceName
                     \o " -j MASQUERADE">>
          ELSE <<>>)
         \o OriginRules(cmd, interfaceName, origins, i + 1)

\* the clamping rule is emitted whatever the MSS value
generateNatRulesAnyMss(cmd, interfaceName, nat) ==
    IF ~nat.present \/ ~nat.Enabled THEN <<>>
    ELSE IF interfaceName = "" THEN <<>>
    ELSE <<cmd \o " -t nat -A POSTROUTING -o " \o interfaceName \o " -j MASQUERADE">>
         \o (IF nat.MssClamping
             THEN <<cmd \o " -t mangle -A FORWARD -o " \o interfaceName
                        \o " -p tcp --tcp-flags SYN,RST SYN -j TCPMSS --set-mss "
                        \o ToString(nat.Mss)>>
             ELSE <<>>)
         \o OriginRules(cmd, interfaceName, nat.Origins, 1)

\* generateNat44Rules / generateNat66Rules differ only in the command name
generateNatRules(cmd, interfaceName, nat) ==
    IF ~nat.present \/ ~nat.Enabled THEN <<>>
    ELSE IF interfaceName = "" THEN <<>>
    ELSE <<cmd \o " -t nat -A POSTROUTING -o " \o interfaceName \o " -j MASQUERADE">>
         \o (IF nat.MssClamping /\ nat.Mss > 0
             THEN <<cmd \o " -t mangle -A FORWARD -o " \o interfaceName
                        \o " -p tcp --tcp-flags SYN,RST SYN -j TCPMSS --set-mss "
                        \o ToString(nat.Mss)>>
             ELSE <<>>)
         \o OriginRules(cmd, interfaceName, nat.Origins, 1)

generateNat44Rules(interfaceName, nat44) == generateNatRules("iptables", interfaceName, nat44)

generateNat66Rules(interfaceName, nat66) == generateNatRules("ip6tables", interfaceName, nat66)

(***************************************************************************)
(* Canonicalizers.                                                         *)
(***************************************************************************)
\* value following the last occurrence of one of the flags, "" if none;
\* the switch in the loop overwrites, so the last occurrence wins
LastFlagIndex(parts, flags) ==
    LET I == {i \in 1..(Len(parts) - 1) : parts[i] \in flags}
    IN  IF I = {} THEN 0 ELSE Max(I)

LastFlagValue(parts, flags) ==
    LET i == LastFlagIndex(parts, flags) IN IF i = 0 THEN "" ELSE parts[i + 1]

\* netmapmanager.normalizeRule: chain|direction|iface|source|dest|target|toAddr
NetmapNormalizeRule(rule) ==
    LET direction(parts, di) ==
            IF di = 0 THEN "" ELSE IF parts[di] = "-i" THEN "input" ELSE "output"
        key(parts) ==
            IF Len(parts) < 6 THEN rule
            ELSE Join(<<ToLower(LastFlagValue(parts, {"-A"})),
                        direction(parts, LastFlagIndex(parts, {"-i", "-o"})),
                        LastFlagValue(parts, {"-i", "-o"}),
                        LastFlagValue(parts, {"-s"}),
                        LastFlagValue(parts, {"-d"}),
                        ToLower(LastFlagValue(parts, {"-j"})),
                        LastFlagValue(parts, {"--to"})>>, "|")
    IN  key(Fields(rule))

\* netmapmanager.normalizeRules
normalizeRules(rules) == Strict([i \in 1..Len(rules) |-> NetmapNormalizeRule(rules[i])])

\* natmanager.normalizeRule: whitespace is collapsed, "anywhere" becomes 0.0.0.0/0
NatNormalizeRule(rule) ==
    LET rejoin(parts) ==
            Join(Strict([i \in 1..Len(parts) |->
                    IF parts[i] = "0.0.0.0/0" \/ parts[i] = "anywhere" THEN "0.0.0.0/0"
                    ELSE parts[i]]), " ")
    IN  rejoin(Fields(rule))

(***************************************************************************)
(* Reconciler.                                                             *)
(***************************************************************************)
\* smartDifference without the membership test: every original of slice 1
smartDifferenceAll(originalSlice1, unused, normalizedSlice1, normalizedSlice2) == originalSlice1

\* netmapmanager.smartDifference: the originals of slice 1 whose normalized
\* form is not among the normalized forms of slice 2
smartDifference(originalSlice1, unused, normalizedSlice1, normalizedSlice2) ==
    LET keep(i, normalizedSet) ==
            normalizedSlice1[i] \notin normalizedSet /\ i <= Len(originalSlice1)
        kept(normalizedSet) ==
            {i \in 1..Len(normalizedSlice1) : keep(i, normalizedSet)}
        result(I) == Strict([k \in 1..Cardinality(I) |-> originalSlice1[Kth(I, k)]])
    IN  result(kept(Range(normalizedSlice2)))

\* difference with the membership test inverted
differenceInverted(slice1, slice2) == SelectSeq(slice1, LAMBDA item : item \in Range(slice2))

\* natmanager.difference
difference(slice1, slice2) == SelectSeq(slice1, LAMBDA item : item \notin Range(slice2))

\* the addMap / removeMap of applyRuleChanges: the last original with that
\* normalized form
MapBack(norm, normalized, originals) ==
    originals[Max({i \in 1..Len(normalized) : normalized[i] = norm})]

(***************************************************************************)
(* System scanner: parsing of the listings.                                *)
(***************************************************************************)
RECURSIVE ScanFormat(_, _, _)
\* the parameter loop of normalizeRuleFormat; a recognized flag consumes the
\* token after it
ScanFormat(parts, i, st) ==
    IF i > Len(parts) THEN st
    ELSE IF i + 1 <= Len(parts) /\ parts[i] \in {"-i", "-o", "-s", "-d", "--to"}
         THEN ScanFormat(parts, i + 2,
                CASE parts[i] = "-i" -> [st EXCEPT !.iface = parts[i + 1], !.direction = "-i", !.isInput = TRUE]
                  [] parts[i] = "-o" -> [st EXCEPT !.iface = parts[i + 1], !.direction = "-o", !.isInput = FALSE]
                  [] parts[i] = "-s" -> [st EXCEPT !.source = parts[i + 1]]
                  [] parts[i] = "-d" -> [st EXCEPT !.dest = parts[i + 1]]
                  [] parts[i] = "--to" -> [st EXCEPT !.toAddr = parts[i + 1]])
         ELSE ScanFormat(parts, i + 1, st)

\* netmapmanager.normalizeRuleFormat
normalizeRuleFormat(line) ==
    LET rebuilt(chain, st) ==
            "ip6tables -t nat -A " \o chain
            \o (IF st.direction # "" /\ st.iface # ""
                THEN " " \o st.direction \o " " \o st.iface ELSE "")
            \o (IF st.isInput /\ st.dest # "" THEN " -d " \o st.dest
                ELSE IF ~st.isInput /\ st.source # "" THEN " -s " \o st.source
                ELSE "")
            \o " -j NETMAP"
            \o (IF st.toAddr # "" THEN " --to " \o st.toAddr ELSE "")
        scanned(parts) ==
            IF Len(parts) < 2 THEN ""
            ELSE rebuilt(parts[2],
                         ScanFormat(parts, 3, [iface |-> "", direction |-> "", isInput |-> FALSE,
                                               source |-> "", dest |-> "", toAddr |-> ""]))
    IN  scanned(Fields(line))

\* the lines of a listing: strings.Split(output, "\n") and strings.TrimSpace
OutputLines(output) ==
    LET raw == Split(output, "\n") IN Strict([i \in 1..Len(raw) |-> TrimSpace(raw[i])])

\* netmapmanager.parseNetmapRulesFromSaves
parseNetmapRulesFromSaves(output) ==
    LET rules(lines) ==
            Strict([i \in 1..Len(lines) |->
                      IF Contains(lines[i], "NETMAP") /\ HasPrefix(lines[i], "-A ")
                      THEN normalizeRuleFormat(lines[i]) ELSE ""])
    IN  SelectSeq(rules(OutputLines(output)), LAMBDA r : r # "")

\* netmapmanager.parseNetmapRuleFromListLine
parseNetmapRuleFromListLine(line, chain) ==
    LET toField(toIdx, fields) ==
            IF toIdx = {} THEN "" ELSE SubSeq(fields[Min(toIdx)], 4, Len(fields[Min(toIdx)]))
        rule(fields, protocol, inInterface, outInterface, source, destination, toAddress) ==
        IF Len(fields) < 9 THEN ""
        ELSE IF fields[3] # "NETMAP" THEN ""
        ELSE "ip6tables -t nat -A " \o chain
             \o (IF protocol # "" /\ protocol # "all" /\ protocol # "--"
                 THEN " -p " \o protocol ELSE "")
             \o (IF chain = "PREROUTING" /\ inInterface \notin {"", "any", "*", "--"}
                 THEN " -i " \o inInterface ELSE "")
             \o (IF chain = "POSTROUTING" /\ outInterface \notin {"", "any", "*", "--"}
                 THEN " -o " \o outInterface ELSE "")
             \o (IF source \notin {"", "anywhere", "0.0.0.0/0", "::/0"}
                 THEN " -s " \o source ELSE "")
             \o (IF destination \notin {"", "anywhere", "0.0.0.0/0", "::/0"}
                 THEN " -d " \o destination ELSE "")
             \o " -j NETMAP"
             \o (IF toAddress # "" THEN " --to " \o toAddress ELSE "")
        parsed(fields) ==
            rule(fields, fields[4], fields[6], fields[7], fields[8], fields[9],
                 toField({i \in 10..Len(fields) : HasPrefix(fields[i], "to:")}, fields))
    IN  parsed(Fields(line))

RECURSIVE ScanList(_, _, _)
\* the line loop of parseNetmapRulesFromList, carrying the current chain
ScanList(lines, i, currentChain) ==
    IF i > Len(lines) THEN <<>>
    ELSE LET line == lines[i]
             chainOf(parts) == IF Len(parts) >= 2 THEN parts[2] ELSE currentChain
             found(rule) == IF rule # "" THEN <<rule>> ELSE <<>>
         IN  IF HasPrefix(line, "Chain ")
             THEN ScanList(lines, i + 1, chainOf(Fields(line)))
             ELSE (IF line # "" /\ ~Contains(line, "pkts bytes target") /\ Contains(line, "NETMAP")
                   THEN found(parseNetmapRuleFromListLine(line, currentChain))
                   ELSE <<>>)
                  \o ScanList(lines, i + 1, currentChain)

\* netmapmanager.parseNetmapRulesFromList
parseNetmapRulesFromList(output) == ScanList(OutputLines(output), 1, "")

\* the line loops of natmanager.getCurrentNatRules: the lines holding one of
\* the words, rebuilt as full commands for the given table
ParseNatListing(iptablesCmd, table, words, output) ==
    LET hit(line) == (\E w \in words : Contains(line, w)) /\ HasPrefix(line, "-A ")
        command(parts) ==
            IF Len(parts) >= 2
            THEN iptablesCmd \o " -t " \o table \o " -A " \o parts[2]
                 \o Join(Strict([k \in 1..(Len(parts) - 2) |-> " " \o parts[k + 2]]), "")
            ELSE ""
        rebuilt(line) == command(Fields(line))
        rules(lines) ==
            Strict([i \in 1..Len(lines) |-> IF hit(lines[i]) THEN rebuilt(lines[i]) ELSE ""])
    IN  SelectSeq(rules(OutputLines(output)), LAMBDA r : r # "")

(***************************************************************************)
(* The rule tables behind exec.Command.  A table is the sequence of its    *)
(* rules, each held as the line the -S listing prints for it.              *)
(***************************************************************************)
TableIds == {"iptables nat", "iptables mangle", "ip6tables nat", "ip6tables mangle"}

IsFlag(tok) == HasPrefix(tok, "-")

\* the tool refuses a command in which an option has no value (the next
\* argument is another option, or there is none) or an address ends in a
\* lone ":" ; strings.Fields drops an empty argument, so an empty address
\* or interface in a rule text leaves its option without a value
Malformed(args) ==
    \/ Len(args) < 5
    \/ \E i \in 6..Len(args) : IsFlag(args[i]) /\ (i = Len(args) \/ IsFlag(args[i + 1]))
    \/ \E i \in 6..Len(args) : HasSuffix(args[i], ":") /\ ~HasSuffix(args[i], "::")

\* the rule a specification names: the four match fields the listing puts
\* first, and the rest of the arguments in the order given
KernelRule(chain, spec) ==
    LET at(I) == IF I = {} THEN "" ELSE spec[Min(I) + 1]
        val(f) == at({i \in 1..(Len(spec) - 1) : spec[i] = f})
        isMatch(i) == \/ spec[i] \in {"-s", "-d", "-i", "-o"} /\ i < Len(spec)
                      \/ i > 1 /\ spec[i - 1] \in {"-s", "-d", "-i", "-o"}
    IN  [chain |-> chain, s |-> val("-s"), d |-> val("-d"), i |-> val("-i"), o |-> val("-o"),
         rest  |-> Join(SelectSeq(Strict([k \in 1..Len(spec) |-> IF isMatch(k) THEN "" ELSE spec[k]]),
                                  LAMBDA t : t # ""), " ")]

\* the line of the -S listing for a rule
SaveLine(kr) ==
    "-A " \o kr.chain
    \o (IF kr.s # "" THEN " -s " \o kr.s ELSE "")
    \o (IF kr.d # "" THEN " -d " \o kr.d ELSE "")
    \o (IF kr.i # "" THEN " -i " \o kr.i ELSE "")
    \o (IF kr.o # "" THEN " -o " \o kr.o ELSE "")
    \o (IF kr.rest # "" THEN " " \o kr.rest ELSE "")

\* the rule a listed line stands for
LineRule(line) ==
    LET rule(parts) == KernelRule(parts[2], SubSeq(parts, 3, Len(parts))) IN rule(Fields(line))

\* the command as exec.Command receives it: strings.Fields(rule)
CmdArgs(rule) == Fields(rule)

CmdTable(args) == args[1] \o " " \o args[3]

CmdRule(args) == KernelRule(args[5], SubSeq(args, 6, Len(args)))

\* whether the tool can carry the command out on table contents t
CmdPossible(t, rule) ==
    LET present(lines, kr) == \E k \in 1..Len(lines) : LineRule(lines[k]) = kr
        possible(args) ==
            /\ ~Malformed(args)
            /\ args[2] = "-t"
            /\ CmdTable(args) \in TableIds
            /\ args[4] \in {"-A", "-D"}
            /\ args[4] = "-D" => present(t[CmdTable(args)], CmdRule(args))
    IN  possible(CmdArgs(rule))

\* the tables after the command has been carried out: -A appends the rule to
\* its chain, -D removes the first rule equal to the specification
CmdEffect(t, rule) ==
    LET without(lines, first) == SubSeq(lines, 1, first - 1) \o SubSeq(lines, first + 1, Len(lines))
        removed(lines, kr) ==
            without(lines, Min({k \in 1..Len(lines) : LineRule(lines[k]) = kr}))
        effect(verb, id, kr) ==
            IF verb = "-A"
            THEN [t EXCEPT ![id] = Append(@, SaveLine(kr))]
            ELSE [t EXCEPT ![id] = removed(@, kr)]
        done(args) == effect(args[4], CmdTable(args), CmdRule(args))
    IN  done(CmdArgs(rule))

\* output of "<cmd> -t <table> -S": chain policies, then the rules
ListSave(t, id) ==
    Join(<<"-P PREROUTING ACCEPT", "-P POSTROUTING ACCEPT">> \o t[id], "\n") \o "\n"

\* one rule line of the table listing, in the column layout the parser reads:
\* pkts bytes target prot opt in out source destination [to:addr]
ListLine(kr) ==
    LET at(I, rest) == IF I = {} THEN "" ELSE rest[Min(I) + 1]
        val(f, rest) == at({i \in 1..(Len(rest) - 1) : rest[i] = f}, rest)
        columns(target, prot, to) ==
            "    0     0 " \o target \o "  " \o (IF prot = "" THEN "all" ELSE prot)
            \o "  --  " \o (IF kr.i = "" THEN "*" ELSE kr.i)
            \o "  " \o (IF kr.o = "" THEN "*" ELSE kr.o)
            \o "  " \o (IF kr.s = "" THEN "::/0" ELSE kr.s)
            \o "  " \o (IF kr.d = "" THEN "::/0" ELSE kr.d)
            \o (IF to = "" THEN "" ELSE "  to:" \o to)
        line(rest) == columns(val("-j", rest), val("-p", rest), val("--to", rest))
    IN  line(Fields(kr.rest))

\* output of "<cmd> -t <table> -L -n": per chain a header, the column
\* titles and the rules of the chain
ListTable(t, id) ==
    LET lines(inChain) == Strict([k \in 1..Len(inChain) |-> ListLine(LineRule(inChain[k]))])
        chainBlock(c) ==
            <<"Chain " \o c \o " (policy ACCEPT)",
              "pkts bytes target  prot opt in  out  source  destination">>
            \o lines(SelectSeq(t[id], LAMBDA l : LineRule(l).chain = c))
            \o <<"">>
    IN  Join(chainBlock("PREROUTING") \o chainBlock("POSTROUTING"), "\n") \o "\n"

(***************************************************************************)
(* Bounds and the inputs explored.                                         *)
(***************************************************************************)
\* runs of the program one after the other
MaxRuns == 2

\* commands the environment makes fail although the tool could carry them out
MaxFail == 1

Procs == {1}

NoNetmap == <<>>

NmA == [Enabled |-> TRUE, PfxPub |-> "2001:db8::", PfxPriv |-> "fd00:",
        Maps |-> <<<<"1::/96", "1::/96">>>>]

NmAB == [Enabled |-> TRUE, PfxPub |-> "", PfxPriv |-> "",
         Maps |-> <<<<"2001:db8:1::/96", "fd00:1::/96">>, <<"2001:db8:2::/96", "fd00:2::/96">>>>]

NmDup == [Enabled |-> TRUE, PfxPub |-> "2001:db8::", PfxPriv |-> "fd00:",
          Maps |-> <<<<"1::/96", "1::/96">>, <<"1::/96", "1::/96">>>>]

NmSkip == [Enabled |-> TRUE, PfxPub |-> "2001:db8::", PfxPriv |-> "fd00:",
           Maps |-> <<<<"", "2::/96">>, <<"1::/96", "1::/96">>, <<"2::/96", "">>>>]

NmEmpty == [Enabled |-> TRUE, PfxPub |-> "2001:db8::", PfxPriv |-> "",
            Maps |-> <<<<"", "fd00:2::/96">>, <<"3::/96">>>>]

NmOff == [Enabled |-> FALSE, PfxPub |-> "2001:db8::", PfxPriv |-> "fd00:",
          Maps |-> <<<<"1::/96", "1::/96">>>>]

LinkCfg(netmap, nat44, nat66) == [Netmap6 |-> netmap, Nat44 |-> nat44, Nat66 |-> nat66]

Doc(state, links) == [doc |-> state, links |-> links]

\* the configuration documents explored
CfgDocs ==
    { Doc("missing", <<>>),
      Doc("unparsable", <<>>),
      Doc("ok", <<>>),
      Doc("ok", "e0" :> LinkCfg("c1" :> NmA, NatCfg(TRUE, TRUE, 1440, <<"10.0.0.0/8">>), NoNat)),
      Doc("ok", "e0" :> LinkCfg("c1" :> NmAB, NoNat, NatCfg(TRUE, FALSE, 1440, <<>>))),
      Doc("ok", "e0" :> LinkCfg("c1" :> NmDup,
                                NatCfg(TRUE, FALSE, 0, <<"10.0.0.0/8", "10.0.0.0/8">>), NoNat)),
      Doc("ok", "e0" :> LinkCfg("c1" :> NmSkip, NoNat, NoNat)),
      Doc("ok", "e0" :> LinkCfg(("c1" :> NmEmpty) @@ ("c2" :> NmA), NoNat, NoNat)),
      Doc("ok", "e0" :> LinkCfg("c1" :> NmEmpty, NoNat, NoNat)),
      Doc("ok", "e0" :> LinkCfg("c1" :> NmOff, NatCfg(FALSE, TRUE, 1440, <<"10.0.0.0/8">>),
                                NatCfg(TRUE, TRUE, 0, <<"">>))),
      Doc("ok", ("e0" :> LinkCfg("c1" :> NmA, NatCfg(TRUE, FALSE, 0, <<>>), NoNat))
                @@ ("e1" :> LinkCfg(NoNetmap, NatCfg(TRUE, FALSE, 0, <<>>), NoNat))),
      Doc("ok", "" :> LinkCfg("c1" :> NmA, NatCfg(TRUE, FALSE, 0, <<>>), NoNat)) }

EmptyTables == [id \in TableIds |-> <<>>]

\* the live tables explored, as their -S listings
InitTables ==
    { EmptyTables,
      \* what the first document above asks for, already installed
      [EmptyTables EXCEPT
         !["ip6tables nat"] = <<"-A POSTROUTING -s fd00:1::/96 -o e0 -j NETMAP --to 2001:db8:1::/96",
                                "-A PREROUTING -d 2001:db8:1::/96 -i e0 -j NETMAP --to fd00:1::/96">>,
         !["iptables nat"] = <<"-A POSTROUTING -o e0 -j MASQUERADE",
                               "-A POSTROUTING -s 10.0.0.0/8 -o e0 -j MASQUERADE">>,
         !["iptables mangle"] =
             <<"-A FORWARD -o e0 -p tcp --tcp-flags SYN,RST SYN -j TCPMSS --set-mss 1440 ">>],
      \* rules left from an earlier configuration, and rules of other tools
      [EmptyTables EXCEPT
         !["ip6tables nat"] = <<"-A POSTROUTING -s fd00:1::/96 -o e0 -j NETMAP --to 2001:db8:1::/96",
                                "-A POSTROUTING -s fd00:9::/96 -o e0 -j NETMAP --to 2001:db8:9::/96",
                                "-A POSTROUTING -o e9 -j MASQUERADE">>,
         !["iptables nat"] = <<"-A PREROUTING -i e9 -p tcp --dport 80 -j DNAT --to-destination 10.0.0.2",
                               "-A POSTROUTING -o e0 -j ACCEPT">>],
      \* rules listed with further matches or in another flag order
      [EmptyTables EXCEPT
         !["ip6tables nat"] = <<"-A PREROUTING -d 2001:db8:1::/96 -i e0 -p tcp -j NETMAP --to fd00:1::/96",
                                "-A PREROUTING -d 2001:db8:7::/96 -i e0 -p tcp -j NETMAP --to fd00:7::/96">>,
         !["iptables nat"] = <<"-A POSTROUTING -o e0 -s 10.0.0.0/8 -j MASQUERADE">>,
         !["iptables mangle"] =
             <<"-A FORWARD -o e0 -p tcp -m tcp --tcp-flags SYN,RST SYN -j TCPMSS --set-mss 1440">>] }

(***************************************************************************)
(* State.                                                                  *)
(***************************************************************************)
VARIABLES
    call,           \* the last call of a function run on its own, with its result
    cfg,            \* the configuration document
    tables,         \* the live rule tables
    radvd,          \* times the advertisement configuration has been written
    fails,          \* failures the environment has injected
    pc,             \* per run: idle, nat44, nat66, netmap, exec, radv, done
    run,            \* which run of the program this is
    site,           \* reconciliation site the executor works for
    currentRules,   \* observed rule set of the site
    newRules,       \* desired rule set of the site
    rulesToAdd,     \* the site's add list
    rulesToRemove,  \* the site's remove list
    queue,          \* commands the site has still to invoke
    log,            \* commands invoked in this run, with their outcome
    err,            \* error the run returned
    prevClean,      \* the previous run returned no error and all its commands succeeded
    before          \* the live state when the run started

vars == <<call, cfg, tables, radvd, fails, pc, run, site, currentRules, newRules,
          rulesToAdd, rulesToRemove, queue, log, err, prevClean, before>>

\* no function has been called on its own
NoCall == [fn |-> "", args |-> <<>>, result |-> ""]

Called(fn, args, result) == [fn |-> fn, args |-> args, result |-> result]

NoErr == [kind |-> "none", site |-> "", failed |-> 0, total |-> 0, rule |-> ""]

Err(kind, s) == [kind |-> kind, site |-> s, failed |-> 0, total |-> 0, rule |-> ""]

Cmd(kind, text) == [kind |-> kind, text |-> text]

Entry(s, kind, text, ok) == [site |-> s, kind |-> kind, text |-> text, ok |-> ok]

Mutations(l) == SelectSeq(l, LAMBDA e : e.kind # "list")

\* what a run starts from, whatever the document and the tables
InitRunOf(P) ==
    /\ call = NoCall
    /\ radvd = 0
    /\ fails = 0
    /\ pc = [p \in P |-> "idle"]
    /\ run = [p \in P |-> 1]
    /\ site = [p \in P |-> ""]
    /\ currentRules = [p \in P |-> <<>>]
    /\ newRules = [p \in P |-> <<>>]
    /\ rulesToAdd = [p \in P |-> <<>>]
    /\ rulesToRemove = [p \in P |-> <<>>]
    /\ queue = [p \in P |-> <<>>]
    /\ log = [p \in P |-> <<>>]
    /\ err = [p \in P |-> NoErr]
    /\ prevClean = [p \in P |-> FALSE]
    /\ before = [p \in P |-> [tables |-> tables, radvd |-> radvd]]

InitRun == InitRunOf(Procs)

Init ==
    /\ cfg \in CfgDocs
    /\ tables \in InitTables
    /\ InitRun

\* the run returns e
Return(p, e) ==
    /\ pc' = [pc EXCEPT ![p] = "done"]
    /\ err' = [err EXCEPT ![p] = e]
    /\ queue' = [queue EXCEPT ![p] = <<>>]

(***************************************************************************)
(* runNormalFlow up to the first stage: the document is read and the link  *)
(* model built.                                                            *)
(***************************************************************************)
\* a document is only refused when it cannot be read
ConfigErrorUnreadable(c) ==
    IF c.doc = "missing" THEN Err("config file not found", "")
    ELSE IF c.doc = "unparsable" THEN Err("failed to parse config", "")
    ELSE NoErr

\* the error runNormalFlow returns before the first stage, NoErr if none
ConfigError(c) ==
    IF c.doc = "missing" THEN Err("config file not found", "")
    ELSE IF c.doc = "unparsable" THEN Err("failed to parse config", "")
    ELSE IF DOMAIN c.links = {} THEN Err("no links configured", "")
    ELSE IF DOMAIN BuildLinks(c) = {} THEN Err("no valid links", "")
    ELSE NoErr

Start(p) ==
    /\ pc[p] = "idle"
    /\ before' = [before EXCEPT ![p] = [tables |-> tables, radvd |-> radvd]]
    /\ IF ConfigError(cfg) # NoErr THEN Return(p, ConfigError(cfg))
       ELSE /\ pc' = [pc EXCEPT ![p] = "nat44"]
            /\ err' = [err EXCEPT ![p] = NoErr]
            /\ queue' = [queue EXCEPT ![p] = <<>>]
    /\ UNCHANGED <<call, cfg, tables, radvd, fails, run, site, currentRules, newRules, rulesToAdd,
                   rulesToRemove, log, prevClean>>

(***************************************************************************)
(* NAT site: applyNat44Rules / applyNat66Rules up to the executor loops of *)
(* applyRuleChanges.                                                       *)
(***************************************************************************)
NatCmd(s) == IF s = "nat44" THEN "iptables" ELSE "ip6tables"

\* getCurrentNatRules without the mangle-table listing
getCurrentNatRulesNatOnly(iptablesCmd, t, mangleOk) ==
    ParseNatListing(iptablesCmd, "nat", {"MASQUERADE", "SNAT", "DNAT"},
                    ListSave(t, iptablesCmd \o " nat"))

\* natmanager.getCurrentNatRules, given whether the mangle listing worked
getCurrentNatRules(iptablesCmd, t, mangleOk) ==
    ParseNatListing(iptablesCmd, "nat", {"MASQUERADE", "SNAT", "DNAT"},
                    ListSave(t, iptablesCmd \o " nat"))
    \o (IF mangleOk
        THEN ParseNatListing(iptablesCmd, "mangle", {"TCPMSS"}, ListSave(t, iptablesCmd \o " mangle"))
        ELSE <<>>)

\* the desired NAT rules of a site, the links taken in the given order
NatNewRules(s, links, order) ==
    Flatten(Strict([k \in 1..Len(order) |->
               LET nat == IF s = "nat44" THEN links[order[k]].Nat44 ELSE links[order[k]].Nat66
               IN  IF nat.present /\ nat.Enabled
                   THEN (IF s = "nat44" THEN generateNat44Rules(order[k], nat)
                         ELSE generateNat66Rules(order[k], nat))
                   ELSE <<>>]))

\* the normalized rule lists of applyRuleChanges
NatNormalizeRules(rules) == Strict([i \in 1..Len(rules) |-> NatNormalizeRule(rules[i])])

\* the add and remove lists of applyRuleChanges
NatToAdd(new, current) == difference(NatNormalizeRules(new), NatNormalizeRules(current))

NatToRemove(new, current) == difference(NatNormalizeRules(current), NatNormalizeRules(new))

\* the commands applyRuleChanges invokes if none fails: each member of the
\* remove list mapped back to its original with the verb rewritten, then each
\* member of the add list mapped back to its original
NatQueue(current, new) ==
    LET dels(toRemove, normalizedCurrent) ==
            Strict([k \in 1..Len(toRemove) |->
                      Cmd("del", Replace1(MapBack(toRemove[k], normalizedCurrent, current),
                                          "-A ", "-D "))])
        adds(toAdd, normalizedNew) ==
            Strict([k \in 1..Len(toAdd) |-> Cmd("add", MapBack(toAdd[k], normalizedNew, new))])
    IN  dels(NatToRemove(new, current), NatNormalizeRules(current))
        \o adds(NatToAdd(new, current), NatNormalizeRules(new))

\* listings of the scan that failed
ListFailures(firstOk, secondOk) == (IF firstOk THEN 0 ELSE 1) + (IF secondOk THEN 0 ELSE 1)

\* the site has its observed and desired rules: the lists are computed
NatScanned(p, s, mangleOk, current, new) ==
    /\ log' = [log EXCEPT ![p] =
                 @ \o <<Entry(s, "list", NatCmd(s) \o " -t nat -S", TRUE),
                        Entry(s, "list", NatCmd(s) \o " -t mangle -S", mangleOk)>>]
    /\ currentRules' = [currentRules EXCEPT ![p] = current]
    /\ newRules' = [newRules EXCEPT ![p] = new]
    /\ rulesToAdd' = [rulesToAdd EXCEPT ![p] = NatToAdd(new, current)]
    /\ rulesToRemove' = [rulesToRemove EXCEPT ![p] = NatToRemove(new, current)]
    /\ queue' = [queue EXCEPT ![p] = NatQueue(current, new)]
    /\ pc' = [pc EXCEPT ![p] = "exec"]
    /\ UNCHANGED err

ScanNat(p) ==
    /\ pc[p] \in {"nat44", "nat66"}
    /\ \E natOk, mangleOk \in BOOLEAN :
       \E order \in Perms(DOMAIN cfg.links) :
         /\ fails + ListFailures(natOk, mangleOk) <= MaxFail
         /\ ~natOk => mangleOk /\ order = CHOOSE o \in Perms(DOMAIN cfg.links) : TRUE
         /\ fails' = fails + ListFailures(natOk, mangleOk)
         /\ site' = [site EXCEPT ![p] = pc[p]]
         /\ IF ~natOk
            THEN /\ Return(p, Err("failed to list rules", pc[p]))
                 /\ log' = [log EXCEPT ![p] =
                              Append(@, Entry(pc[p], "list", NatCmd(pc[p]) \o " -t nat -S", FALSE))]
                 /\ UNCHANGED <<currentRules, newRules, rulesToAdd, rulesToRemove>>
            ELSE NatScanned(p, pc[p], mangleOk,
                            getCurrentNatRules(NatCmd(pc[p]), tables, mangleOk),
                            NatNewRules(pc[p], BuildLinks(cfg), order))
    /\ UNCHANGED <<call, cfg, tables, radvd, run, prevClean, before>>

(***************************************************************************)
(* NETMAP site: ApplyNetmapRules up to its executor loops.                 *)
(***************************************************************************)
\* getCurrentNetmapRules with the error of the -L -n listing dropped
getCurrentNetmapRulesUnchecked(t, sOk, lOk) ==
    LET got(saved) ==
            IF sOk /\ Len(saved) > 0 THEN [ok |-> TRUE, listed |-> FALSE, rules |-> saved]
            ELSE [ok |-> TRUE, listed |-> TRUE,
                  rules |-> IF lOk THEN parseNetmapRulesFromList(ListTable(t, "ip6tables nat"))
                            ELSE <<>>]
    IN  got(parseNetmapRulesFromSaves(ListSave(t, "ip6tables nat")))

\* netmapmanager.getCurrentNetmapRules, given which listings worked: the -S
\* listing is used if it works and holds a NETMAP rule, else the -L -n one
getCurrentNetmapRules(t, sOk, lOk) ==
    LET got(saved) ==
            IF sOk /\ Len(saved) > 0 THEN [ok |-> TRUE, listed |-> FALSE, rules |-> saved]
            ELSE IF ~lOk THEN [ok |-> FALSE, listed |-> TRUE, rules |-> <<>>]
            ELSE [ok |-> TRUE, listed |-> TRUE,
                  rules |-> parseNetmapRulesFromList(ListTable(t, "ip6tables nat"))]
    IN  got(parseNetmapRulesFromSaves(ListSave(t, "ip6tables nat")))

\* the (link, mapping set) pairs in the order the two range loops visit them
NetmapVisits(links, order, setOrder) ==
    Flatten(Strict([k \in 1..Len(order) |->
               [m \in 1..Len(setOrder[order[k]]) |->
                  [linkName |-> order[k], netmap |-> links[order[k]].Netmap6[setOrder[order[k]][m]]]]]))

\* the desired NETMAP rules
NetmapNewRules(visits) ==
    Flatten(Strict([k \in 1..Len(visits) |-> GenerateIp6tablesRules(visits[k].netmap, visits[k].linkName)]))

\* the direct rules ApplyNetmapRules invokes for an enabled mapping set that
\* has mappings but generated no rule
FallbackRules(linkName, netmap) ==
    IF Len(GenerateIp6tablesRules(netmap, linkName)) = 0 /\ netmap.Enabled /\ Len(netmap.Maps) > 0
    THEN Flatten(Strict([k \in 1..Len(netmap.Maps) |->
            LET publicAddr  == SimpleConcatAddress(netmap.Maps[k].Public, netmap.PfxPub)
                privateAddr == SimpleConcatAddress(netmap.Maps[k].Private, netmap.PfxPriv)
            IN  <<Cmd("fallback", PostroutingRule(linkName, privateAddr, publicAddr)),
                  Cmd("fallback", PreroutingRule(linkName, publicAddr, privateAddr))>>]))
    ELSE <<>>

\* the add and remove lists of ApplyNetmapRules
NetmapToAdd(new, current) ==
    smartDifference(new, current, normalizeRules(new), normalizeRules(current))

NetmapToRemove(new, current) ==
    smartDifference(current, new, normalizeRules(current), normalizeRules(new))

\* the commands ApplyNetmapRules invokes after the listing: the direct rules,
\* and unless no rule was generated, the removals and then the additions
NetmapQueue(visits, current, new) ==
    LET dels(toRemove) ==
            Strict([k \in 1..Len(toRemove) |-> Cmd("del", Replace1(toRemove[k], "-A ", "-D "))])
        adds(toAdd) == Strict([k \in 1..Len(toAdd) |-> Cmd("add", toAdd[k])])
    IN  Flatten(Strict([k \in 1..Len(visits) |-> FallbackRules(visits[k].linkName, visits[k].netmap)]))
        \o (IF Len(new) = 0 THEN <<>>
            ELSE dels(NetmapToRemove(new, current)) \o adds(NetmapToAdd(new, current)))

\* the orders in which the mapping sets of each link may be visited
SetOrders(links) ==
    {so \in [DOMAIN links -> UNION {Perms(DOMAIN links[l].Netmap6) : l \in DOMAIN links}] :
        \A l \in DOMAIN links : so[l] \in Perms(DOMAIN links[l].Netmap6)}

\* the site has its observed and desired rules: the lists are computed
NetmapPlanned(p, visits, current, new) ==
    /\ currentRules' = [currentRules EXCEPT ![p] = current]
    /\ newRules' = [newRules EXCEPT ![p] = new]
    /\ rulesToAdd' = [rulesToAdd EXCEPT ![p] =
                        IF Len(new) = 0 THEN <<>> ELSE NetmapToAdd(new, current)]
    /\ rulesToRemove' = [rulesToRemove EXCEPT ![p] =
                           IF Len(new) = 0 THEN <<>> ELSE NetmapToRemove(new, current)]
    /\ queue' = [queue EXCEPT ![p] = NetmapQueue(visits, current, new)]
    /\ pc' = [pc EXCEPT ![p] = "exec"]
    /\ UNCHANGED err

\* the listing stage is through with result got
NetmapScanned(p, sOk, lOk, got, visits) ==
    /\ ~got.listed => lOk
    /\ log' = [log EXCEPT ![p] =
                 @ \o <<Entry("netmap", "list", "ip6tables -t nat -S", sOk)>>
                   \o (IF got.listed
                       THEN <<Entry("netmap", "list", "ip6tables -t nat -L -n", lOk)>>
                       ELSE <<>>)]
    /\ IF ~got.ok
       THEN /\ Return(p, Err("failed to get current rules", "netmap"))
            /\ UNCHANGED <<currentRules, newRules, rulesToAdd, rulesToRemove>>
       ELSE NetmapPlanned(p, visits, got.rules, NetmapNewRules(visits))

ScanNetmap(p) ==
    /\ pc[p] = "netmap"
    /\ \E sOk, lOk \in BOOLEAN :
       \E order \in Perms(DOMAIN cfg.links) :
       \E setOrder \in SetOrders(BuildLinks(cfg)) :
         /\ fails + ListFailures(sOk, lOk) <= MaxFail
         /\ ~lOk => /\ order = CHOOSE o \in Perms(DOMAIN cfg.links) : TRUE
                    /\ setOrder = CHOOSE so \in SetOrders(BuildLinks(cfg)) : TRUE
         /\ fails' = fails + ListFailures(sOk, lOk)
         /\ site' = [site EXCEPT ![p] = "netmap"]
         /\ NetmapScanned(p, sOk, lOk, getCurrentNetmapRules(tables, sOk, lOk),
                          NetmapVisits(BuildLinks(cfg), order, setOrder))
    /\ UNCHANGED <<call, cfg, tables, radvd, run, prevClean, before>>

(***************************************************************************)
(* Executor: one command of the site's loops (executeIptablesRule,         *)
(* executeIp6tablesRule) and what the loop does with its outcome.          *)
(***************************************************************************)
\* the loops go on whatever the outcome
GoesOnAlways(s, kind, ok) == TRUE

\* the loops stop at the first command that fails
GoesOnUntilFailure(s, kind, ok) == ok

\* whether the loop goes on after the command: only a failed addition at a
\* NAT site makes applyRuleChanges return
GoesOn(s, kind, ok) == ok \/ kind # "add" \/ s = "netmap"

\* the command c has been invoked with outcome ok
Invoked(p, c, ok, possible) ==
    /\ ok => possible
    /\ (~ok /\ possible) => fails < MaxFail
    /\ fails' = IF ~ok /\ possible THEN fails + 1 ELSE fails
    /\ tables' = IF ok THEN CmdEffect(tables, c.text) ELSE tables
    /\ log' = [log EXCEPT ![p] = Append(@, Entry(site[p], c.kind, c.text, ok))]
    /\ IF GoesOn(site[p], c.kind, ok)
       THEN /\ queue' = [queue EXCEPT ![p] = Tail(@)]
            /\ UNCHANGED <<pc, err>>
       ELSE Return(p, [Err("failed to add rule", site[p]) EXCEPT !.rule = c.text])

Exec(p) ==
    /\ pc[p] = "exec"
    /\ queue[p] # <<>>
    /\ \E ok \in BOOLEAN :
         Invoked(p, Head(queue[p]), ok, CmdPossible(tables, Head(queue[p]).text))
    /\ UNCHANGED <<call, cfg, radvd, run, site, currentRules, newRules, rulesToAdd, rulesToRemove,
                   prevClean, before>>

\* the additions of the site that failed in this run
FailedAdds(l, s) == SelectSeq(l, LAMBDA e : e.site = s /\ e.kind = "add" /\ ~e.ok)

\* what the site returns once its loops are through
SiteResult(s, l, toAdd) ==
    IF s = "netmap" /\ Len(FailedAdds(l, s)) > 0
    THEN [Err("failed to add netmap rules", s) EXCEPT
            !.failed = Len(FailedAdds(l, s)), !.total = Len(toAdd)]
    ELSE NoErr

\* a flow that leaves the NAT66 stage out
NextStageWithoutNat66(s) ==
    CASE s = "nat44" -> "netmap" [] s = "nat66" -> "netmap" [] s = "netmap" -> "radv"

\* the stage runNormalFlow and ApplyNatRules go to after a site
NextStage(s) == CASE s = "nat44" -> "nat66" [] s = "nat66" -> "netmap" [] s = "netmap" -> "radv"

EndSite(p) ==
    /\ pc[p] = "exec"
    /\ queue[p] = <<>>
    /\ IF SiteResult(site[p], log[p], rulesToAdd[p]) # NoErr
       THEN Return(p, SiteResult(site[p], log[p], rulesToAdd[p]))
       ELSE /\ pc' = [pc EXCEPT ![p] = NextStage(site[p])]
            /\ UNCHANGED <<err, queue>>
    /\ UNCHANGED <<call, cfg, tables, radvd, fails, run, site, currentRules, newRules,
                   rulesToAdd, rulesToRemove, log, prevClean, before>>

(***************************************************************************)
(* Last stage of runNormalFlow: the advertisement configuration is written.*)
(***************************************************************************)
Radv(p) ==
    /\ pc[p] = "radv"
    /\ \E ok \in BOOLEAN :
         /\ ~ok => fails < MaxFail
         /\ fails' = IF ok THEN fails ELSE fails + 1
         /\ radvd' = IF ok THEN radvd + 1 ELSE radvd
         /\ Return(p, IF ok THEN NoErr ELSE Err("failed to update radvd config", "radv"))
    /\ UNCHANGED <<call, cfg, tables, run, site, currentRules, newRules, rulesToAdd, rulesToRemove,
                   log, prevClean, before>>

\* every command of the run succeeded and the run returned no error
Clean(p) == err[p] = NoErr /\ \A k \in 1..Len(log[p]) : log[p][k].ok

\* the program is run again: a new process, with nothing of the last run
\* but the live state it left
Again(p) ==
    /\ pc[p] = "done"
    /\ run[p] < MaxRuns
    /\ run' = [run EXCEPT ![p] = @ + 1]
    /\ pc' = [pc EXCEPT ![p] = "idle"]
    /\ prevClean' = [prevClean EXCEPT ![p] = Clean(p)]
    /\ log' = [log EXCEPT ![p] = <<>>]
    /\ site' = [site EXCEPT ![p] = ""]
    /\ currentRules' = [currentRules EXCEPT ![p] = <<>>]
    /\ newRules' = [newRules EXCEPT ![p] = <<>>]
    /\ rulesToAdd' = [rulesToAdd EXCEPT ![p] = <<>>]
    /\ rulesToRemove' = [rulesToRemove EXCEPT ![p] = <<>>]
    /\ err' = [err EXCEPT ![p] = NoErr]
    /\ UNCHANGED <<call, cfg, tables, radvd, fails, queue, before>>

Next ==
    \E p \in Procs :
        \/ Start(p)
        \/ ScanNat(p)
        \/ ScanNetmap(p)
        \/ Exec(p)
        \/ EndSite(p)
        \/ Radv(p)
        \/ Again(p)

Spec == Init /\ [][Next]_vars

(***************************************************************************)
(* Two invocations of the program on the same tables, as the dispatcher    *)
(* hook starts one for every interface that becomes routable.  Nothing in  *)
(* ApplyNetmapRules or applyRuleChanges takes a lock, so the steps of the  *)
(* two interleave freely.                                                  *)
(***************************************************************************)
Invocations == {1, 2}

InitConc ==
    /\ cfg \in {Doc("ok", "e0" :> LinkCfg("c1" :> NmA, NoNat, NoNat)),
                Doc("ok", "e0" :> LinkCfg(NoNetmap, NatCfg(TRUE, FALSE, 0, <<>>), NoNat))}
    /\ tables = EmptyTables
    /\ InitRunOf(Invocations)

NextConc ==
    \E p \in Invocations :
        \/ Start(p)
        \/ ScanNat(p)
        \/ ScanNetmap(p)
        \/ Exec(p)
        \/ EndSite(p)
        \/ Radv(p)

SpecConc == InitConc /\ [][NextConc]_vars

(***************************************************************************)
(* Configuration maker: prefix inference.                                  *)
(***************************************************************************)
\* configmaker.NetmapMapping
NetmapMapping(public, private) == [Public |-> public, Private |-> private]

\* strings.TrimPrefix
TrimPrefix(s, prefix) == IF HasPrefix(s, prefix) THEN SubSeq(s, Len(prefix) + 1, Len(s)) ELSE s

\* the address without its CIDR notation
CleanAddr(addr) == IF Contains(addr, "/") THEN Split(addr, "/")[1] ELSE addr

\* stripping the prefix makes the address shorter
hasReductionShorter(cleanAddr, candidatePrefix) ==
    TrimPrefix(cleanAddr, candidatePrefix) # cleanAddr

\* whether using the prefix reduces the address:
\* len(remaining) > 0 && remaining != cleanAddr
hasReduction(cleanAddr, candidatePrefix) ==
    LET reduced(remaining) == Len(remaining) > 0 /\ remaining # cleanAddr
    IN  reduced(TrimPrefix(TrimPrefix(cleanAddr, candidatePrefix), ":"))

\* the loop over prefixLen of findCommonIPv6Prefix
RECURSIVE TryPrefixLen(_, _, _)
TryPrefixLen(addresses, segments, prefixLen) ==
    IF prefixLen < 1 THEN ""
    ELSE LET candidatePrefix == Join(SubSeq(segments, 1, prefixLen), ":") \o ":"
             allMatch ==
                 \A i \in 1..Len(addresses) : HasPrefix(CleanAddr(addresses[i]), candidatePrefix)
             reduces ==
                 \E i \in 1..Len(addresses) : hasReduction(CleanAddr(addresses[i]), candidatePrefix)
         IN  IF Len(segments) >= prefixLen /\ allMatch /\ reduces
             THEN candidatePrefix
             ELSE TryPrefixLen(addresses, segments, prefixLen - 1)

\* configmaker.findCommonIPv6Prefix
findCommonIPv6Prefix(mappings, isPublic) ==
    LET common(addresses) ==
            TryPrefixLen(addresses, Split(CleanAddr(addresses[1]), ":"), 3)
    IN  IF Len(mappings) = 0 THEN ""
        ELSE common([i \in 1..Len(mappings) |->
                        IF isPublic THEN mappings[i].Public ELSE mappings[i].Private])

(***************************************************************************)
(* Configuration maker: the document rendered from what was discovered.    *)
(* The document is kept as the sequence of its lines.                      *)
(***************************************************************************)
boolToString(b) == IF b THEN "true" ELSE "false"

\* configmaker.removePrefix
removePrefix(address, prefix) ==
    IF prefix = "" \/ ~HasPrefix(address, prefix) THEN address
    ELSE TrimPrefix(TrimPrefix(address, prefix), ":")

\* configmaker.parseNetmapRuleForConfig, for a line of "-L -n -v":
\* pkts bytes target prot opt in out source destination [to:addr].
\* (A line of exactly 8 fields makes fields[9:] panic in the program; the
\* listings explored always have the destination column.)
parseNetmapRuleForConfig(line, chain) ==
    LET bare == [Interface |-> "", Direction |-> "", Chain |-> chain, Source |-> "",
                 Destination |-> "", ToAddress |-> ""]
        toField(toIdx, fields) ==
            IF toIdx = {} THEN "" ELSE SubSeq(fields[Min(toIdx)], 4, Len(fields[Min(toIdx)]))
        unset(iface) == iface \in {"any", "*", "--"}
        rule(fields) ==
            IF Len(fields) < 8 THEN bare
            ELSE IF fields[3] # "NETMAP" THEN bare
            ELSE [Chain       |-> chain,
                  Source      |-> IF Len(fields) > 8 THEN fields[8] ELSE "",
                  Destination |-> IF Len(fields) > 8 THEN fields[9] ELSE "",
                  Interface   |-> IF chain = "PREROUTING" /\ ~unset(fields[6]) THEN fields[6]
                                  ELSE IF chain = "POSTROUTING" /\ ~unset(fields[7]) THEN fields[7]
                                  ELSE "",
                  Direction   |-> IF chain = "PREROUTING" /\ ~unset(fields[6]) THEN "PREROUTING"
                                  ELSE IF chain = "POSTROUTING" /\ ~unset(fields[7])
                                       THEN "POSTROUTING"
                                  ELSE "",
                  ToAddress   |-> toField({i \in 10..Len(fields) : HasPrefix(fields[i], "to:")},
                                          fields)]
    IN  rule(Fields(line))

RECURSIVE ScanForConfig(_, _, _)
\* the line loop of parseNetmapRulesForConfig, carrying the current chain:
\* the rules that have an interface, in the order of the listing
ScanForConfig(lines, i, currentChain) ==
    IF i > Len(lines) THEN <<>>
    ELSE LET line == lines[i]
             chainOf(parts) == IF Len(parts) >= 2 THEN parts[2] ELSE currentChain
             found(rule) == IF rule.Interface # "" THEN <<rule>> ELSE <<>>
         IN  IF HasPrefix(line, "Chain ")
             THEN ScanForConfig(lines, i + 1, chainOf(Fields(line)))
             ELSE (IF line # "" /\ ~Contains(line, "pkts bytes target")
                      /\ ~Contains(line, "prot opt source")
                      /\ Contains(line, "NETMAP") /\ currentChain # ""
                   THEN found(parseNetmapRuleForConfig(line, currentChain))
                   ELSE <<>>)
                  \o ScanForConfig(lines, i + 1, currentChain)

\* configmaker.parseNetmapRulesForConfig: the rules by interface
parseNetmapRulesForConfig(output) ==
    LET byInterface(found) ==
            [iface \in {found[i].Interface : i \in 1..Len(found)} |->
                SelectSeq(found, LAMBDA r : r.Interface = iface)]
    IN  byInterface(ScanForConfig(OutputLines(output), 1, ""))

\* configmaker.scanNetmapRules on the live tables: "ip6tables -t nat -L -n -v"
scanNetmapRules(t) == parseNetmapRulesForConfig(ListTable(t, "ip6tables nat"))

\* configmaker.parseNat66RuleForConfig, for a line of "-L -n -v"
parseNat66RuleForConfig(line, chain) ==
    LET unset(iface) == iface \in {"any", "*", "--"}
        rule(fields) ==
            IF Len(fields) < 8
            THEN [Interface |-> "", Direction |-> "", Chain |-> chain, Target |-> "",
                  Source |-> "", Destination |-> ""]
            ELSE [Chain       |-> chain,
                  Target      |-> fields[3],
                  Source      |-> IF Len(fields) > 8 THEN fields[8] ELSE "",
                  Destination |-> IF Len(fields) > 8 THEN fields[9] ELSE "",
                  Interface   |-> IF chain = "POSTROUTING" /\ ~unset(fields[7]) THEN fields[7]
                                  ELSE IF chain = "PREROUTING" /\ ~unset(fields[6]) THEN fields[6]
                                  ELSE "",
                  Direction   |-> IF chain = "POSTROUTING" /\ ~unset(fields[7]) THEN "POSTROUTING"
                                  ELSE IF chain = "PREROUTING" /\ ~unset(fields[6])
                                       THEN "PREROUTING"
                                  ELSE ""]
    IN  rule(Fields(line))

RECURSIVE ScanNat66ForConfig(_, _, _)
\* the line loop of parseNat66RulesForConfig, carrying the current chain:
\* the rules that have an interface, in the order of the listing
ScanNat66ForConfig(lines, i, currentChain) ==
    IF i > Len(lines) THEN <<>>
    ELSE LET line == lines[i]
             chainOf(parts) == IF Len(parts) >= 2 THEN parts[2] ELSE currentChain
             found(rule) == IF rule.Interface # "" THEN <<rule>> ELSE <<>>
         IN  IF HasPrefix(line, "Chain ")
             THEN ScanNat66ForConfig(lines, i + 1, chainOf(Fields(line)))
             ELSE (IF line # "" /\ ~Contains(line, "pkts bytes target")
                      /\ ~Contains(line, "prot opt source")
                      /\ (Contains(line, "MASQUERADE") \/ Contains(line, "SNAT")
                             \/ Contains(line, "DNAT"))
                      /\ currentChain # ""
                   THEN found(parseNat66RuleForConfig(line, currentChain))
                   ELSE <<>>)
                  \o ScanNat66ForConfig(lines, i + 1, currentChain)

\* configmaker.parseNat66RulesForConfig: the rules by interface
parseNat66RulesForConfig(output) ==
    LET byInterface(found) ==
            [iface \in {found[i].Interface : i \in 1..Len(found)} |->
                SelectSeq(found, LAMBDA r : r.Interface = iface)]
    IN  byInterface(ScanNat66ForConfig(OutputLines(output), 1, ""))

\* the rule a map keyed by rule.Source holds for the key: the last one stored
LastBySource(rules, direction, source) ==
    rules[Max({i \in 1..Len(rules) :
                 rules[i].Direction = direction /\ rules[i].Source = source})]

\* the keys of such a map, in the order the range loop takes them
SourcesIn(rules, direction, order) ==
    SelectSeq(order, LAMBDA k : \E i \in 1..Len(rules) :
                                   rules[i].Direction = direction /\ rules[i].Source = k)

\* extractNetmapMappings taking the pairs of both directions
extractNetmapMappingsBoth(rules, order) ==
    LET usable(keys, direction) ==
            SelectSeq(keys, LAMBDA k : /\ LastBySource(rules, direction, k).ToAddress # ""
                                       /\ LastBySource(rules, direction, k).Source # "")
        fromPost(keys) ==
            [i \in 1..Len(keys) |->
                NetmapMapping(LastBySource(rules, "POSTROUTING", keys[i]).ToAddress,
                              LastBySource(rules, "POSTROUTING", keys[i]).Source)]
        fromPre(keys) ==
            [i \in 1..Len(keys) |->
                NetmapMapping(LastBySource(rules, "PREROUTING", keys[i]).Source,
                              LastBySource(rules, "PREROUTING", keys[i]).ToAddress)]
    IN  fromPost(usable(SourcesIn(rules, "POSTROUTING", order), "POSTROUTING"))
        \o fromPre(usable(SourcesIn(rules, "PREROUTING", order), "PREROUTING"))

\* configmaker.extractNetmapMappings, the maps ranged over in the given order
extractNetmapMappings(rules, order) ==
    LET usable(keys, direction) ==
            SelectSeq(keys, LAMBDA k : /\ LastBySource(rules, direction, k).ToAddress # ""
                                       /\ LastBySource(rules, direction, k).Source # "")
        fromPost(keys) ==
            [i \in 1..Len(keys) |->
                NetmapMapping(LastBySource(rules, "POSTROUTING", keys[i]).ToAddress,
                              LastBySource(rules, "POSTROUTING", keys[i]).Source)]
        fromPre(keys) ==
            [i \in 1..Len(keys) |->
                NetmapMapping(LastBySource(rules, "PREROUTING", keys[i]).Source,
                              LastBySource(rules, "PREROUTING", keys[i]).ToAddress)]
    IN  IF Len(usable(SourcesIn(rules, "POSTROUTING", order), "POSTROUTING")) > 0
        THEN fromPost(usable(SourcesIn(rules, "POSTROUTING", order), "POSTROUTING"))
        ELSE fromPre(usable(SourcesIn(rules, "PREROUTING", order), "PREROUTING"))

\* configmaker.extractNetmapPrefixes
extractNetmapPrefixes(mappings) ==
    IF Len(mappings) = 0 THEN [PublicPrefix |-> "", PrivatePrefix |-> ""]
    ELSE [PublicPrefix  |-> findCommonIPv6Prefix(mappings, TRUE),
          PrivatePrefix |-> findCommonIPv6Prefix(mappings, FALSE)]

\* correlateNetmapWithRadvRoutes finding no route for any mapping
correlateNetmapWithRadvRoutesNone(mappings, routes) ==
    [i \in 1..Len(mappings) |->
        [Public |-> mappings[i].Public, Private |-> mappings[i].Private, HasRadv |-> FALSE,
         RadvPreference |-> "", RadvLifetime |-> 0]]

\* configmaker.correlateNetmapWithRadvRoutes
correlateNetmapWithRadvRoutes(mappings, routes) ==
    LET matching(m) == {j \in 1..Len(routes) : routes[j].Prefix = m.Public}
        withRadv(m, found) ==
            IF found = {}
            THEN [Public |-> m.Public, Private |-> m.Private, HasRadv |-> FALSE,
                  RadvPreference |-> "", RadvLifetime |-> 0]
            ELSE [Public |-> m.Public, Private |-> m.Private, HasRadv |-> TRUE,
                  RadvPreference |-> routes[Min(found)].Preference,
                  RadvLifetime |-> routes[Min(found)].Lifetime]
    IN  [i \in 1..Len(mappings) |-> withRadv(mappings[i], matching(mappings[i]))]

\* one "- pair:" line of the maps
PairLine(public, private, prefixConfig, preference, lifetime) ==
    "          - pair: [\"" \o removePrefix(public, prefixConfig.PublicPrefix) \o "\", \""
        \o removePrefix(private, prefixConfig.PrivatePrefix) \o "\", \"" \o preference
        \o "\", " \o ToString(lifetime) \o "]"

\* netmapEntries: the mappings with their advertisement, then those not yet added
NetmapEntries(netmapMappings, netmapWithRadv, prefixConfig) ==
    [i \in 1..Len(netmapWithRadv) |->
        IF netmapWithRadv[i].HasRadv
        THEN PairLine(netmapWithRadv[i].Public, netmapWithRadv[i].Private, prefixConfig,
                      netmapWithRadv[i].RadvPreference, netmapWithRadv[i].RadvLifetime)
        ELSE PairLine(netmapWithRadv[i].Public, netmapWithRadv[i].Private, prefixConfig,
                      "high", 3600)]
    \o [i \in 1..Len(SelectSeq(netmapMappings, LAMBDA m :
                ~\E j \in 1..Len(netmapWithRadv) :
                    m.Public = netmapWithRadv[j].Public /\ m.Private = netmapWithRadv[j].Private)) |->
          PairLine(SelectSeq(netmapMappings, LAMBDA m :
                      ~\E j \in 1..Len(netmapWithRadv) :
                          m.Public = netmapWithRadv[j].Public
                          /\ m.Private = netmapWithRadv[j].Private)[i].Public,
                   SelectSeq(netmapMappings, LAMBDA m :
                      ~\E j \in 1..Len(netmapWithRadv) :
                          m.Public = netmapWithRadv[j].Public
                          /\ m.Private = netmapWithRadv[j].Private)[i].Private,
                   prefixConfig, "high", 3600)]

\* prefixEntries
PrefixEntries(prefixes) ==
    Flatten([i \in 1..Len(prefixes) |->
        <<"        - prefix: \"" \o prefixes[i].Prefix \o "\"",
          "          on-link: " \o boolToString(prefixes[i].OnLink),
          "          auto: " \o boolToString(prefixes[i].Autonomous),
          "          adv-addr: " \o boolToString(prefixes[i].RouterAddr),
          "          lifetime: [1800, 900]">>])

\* the netmap6 section
Netmap6Section(slim, hasNetmap, prefixConfig, netmapEntries) ==
    IF (hasNetmap /\ Len(netmapEntries) > 0) \/ (~slim /\ hasNetmap)
    THEN <<"      netmap6:", "        c1:",
           "          enabled: " \o boolToString(hasNetmap /\ Len(netmapEntries) > 0)>>
         \o (IF prefixConfig.PublicPrefix # ""
             THEN <<"          pfx-pub: \"" \o prefixConfig.PublicPrefix \o "\"">> ELSE <<>>)
         \o (IF prefixConfig.PrivatePrefix # ""
             THEN <<"          pfx-priv: \"" \o prefixConfig.PrivatePrefix \o "\"">> ELSE <<>>)
         \o (IF Len(netmapEntries) > 0 THEN <<"          maps:">> \o netmapEntries
             ELSE IF ~slim THEN <<"          maps: []">> ELSE <<>>)
    ELSE <<>>

\* the nat66 and the nat44 section
NatSection(name, slim, enabled) ==
    IF enabled \/ ~slim
    THEN <<"      " \o name \o ":", "        enabled: " \o boolToString(enabled),
           "        mss-clamping: false", "        mss: 1440", "        origins: []">>
    ELSE <<>>

\* the radv section
RadvSection(slim, hasRadvd, radvdIface, prefixEntries, hasRoutes) ==
    IF (hasRadvd /\ (Len(prefixEntries) > 0 \/ hasRoutes)) \/ (~slim /\ hasRadvd)
           \/ (~slim /\ ~hasRadvd)
    THEN <<"      radv:", "        enabled: " \o boolToString(hasRadvd),
           "        adv-interval: ["
               \o ToString(IF hasRadvd /\ radvdIface.MinRtrAdvInterval > 0
                           THEN radvdIface.MinRtrAdvInterval ELSE 30)
               \o ", "
               \o ToString(IF hasRadvd /\ radvdIface.MaxRtrAdvInterval > 0
                           THEN radvdIface.MaxRtrAdvInterval ELSE 60)
               \o "]",
           "        lifetime: "
               \o ToString(IF hasRadvd /\ radvdIface.AdvDefaultLifetime >= 0
                           THEN radvdIface.AdvDefaultLifetime ELSE 180),
           "        dhcp: " \o boolToString(hasRadvd /\ radvdIface.AdvManagedFlag)>>
         \o (IF Len(prefixEntries) > 0 THEN <<"        prefixes:">> \o prefixEntries
             ELSE IF ~slim THEN <<"        prefixes: []">> ELSE <<>>)
         \o (IF hasRoutes THEN <<"        routes:", "        - route: [\"::/0\", \"medium\", 3600]">>
             ELSE IF ~slim THEN <<"        routes: []">> ELSE <<>>)
    ELSE <<>>

\* a RadvdInterface not found in the map: the zero value
NoRadvdInterface ==
    [AdvSendAdvert |-> FALSE, AdvManagedFlag |-> FALSE, MinRtrAdvInterval |-> 0,
     MaxRtrAdvInterval |-> 0, AdvDefaultLifetime |-> 0, Prefixes |-> <<>>, Routes |-> <<>>]

\* the lines of one interface, once its entries are known
InterfaceLines(ifaceName, slim, hasRadvd, radvdIface, hasNetmap, prefixConfig, netmapEntries, prefixEntries, hasRoutes, nat66Enabled) ==
    IF slim /\ ~((hasNetmap /\ Len(netmapEntries) > 0)
                 \/ (hasRadvd /\ (Len(prefixEntries) > 0 \/ hasRoutes)) \/ nat66Enabled \/ FALSE)
    THEN <<>>
    ELSE <<"    " \o ifaceName \o ":">>
         \o Netmap6Section(slim, hasNetmap, prefixConfig, netmapEntries)
         \o NatSection("nat66", slim, nat66Enabled)
         \o NatSection("nat44", slim, FALSE)
         \o RadvSection(slim, hasRadvd, radvdIface, prefixEntries, hasRoutes)

\* the netmap part of one interface: mappings, prefixes, entries
InterfaceWithMappings(ifaceName, slim, hasRadvd, radvdIface, hasNetmap, netmapMappings, hasRoutes, nat66Enabled) ==
    InterfaceLines(ifaceName, slim, hasRadvd, radvdIface, hasNetmap,
                   extractNetmapPrefixes(netmapMappings),
                   NetmapEntries(netmapMappings,
                                 IF hasNetmap /\ hasRadvd
                                 THEN correlateNetmapWithRadvRoutes(netmapMappings, radvdIface.Routes)
                                 ELSE <<>>,
                                 extractNetmapPrefixes(netmapMappings)),
                   PrefixEntries(IF hasRadvd THEN radvdIface.Prefixes ELSE <<>>),
                   hasRoutes, nat66Enabled)

\* every interface of the network scan, of the radvd configuration, of the
\* netmap rules and of the NAT66 rules
AllInterfaces(interfaces, radvdConfig, netmapRules, nat66Rules) ==
    {interfaces[i].Name : i \in 1..Len(interfaces)}
        \cup DOMAIN radvdConfig \cup DOMAIN netmapRules \cup DOMAIN nat66Rules

\* configmaker.generateConfigYAML, the maps ranged over in the given orders
generateConfigYAML(interfaces, routes, radvdConfig, netmapRules, nat66Rules, slim, ifaceOrder, sourceOrder) ==
    <<"network:", "  links:">>
    \o Flatten([k \in 1..Len(ifaceOrder) |->
          InterfaceWithMappings(
              ifaceOrder[k], slim,
              ifaceOrder[k] \in DOMAIN radvdConfig,
              IF ifaceOrder[k] \in DOMAIN radvdConfig THEN radvdConfig[ifaceOrder[k]]
              ELSE NoRadvdInterface,
              ifaceOrder[k] \in DOMAIN netmapRules,
              IF ifaceOrder[k] \in DOMAIN netmapRules
              THEN extractNetmapMappings(netmapRules[ifaceOrder[k]], sourceOrder)
              ELSE <<>>,
              \E i \in 1..Len(routes) : routes[i].Interface = ifaceOrder[k],
              ifaceOrder[k] \in DOMAIN nat66Rules /\ Len(nat66Rules[ifaceOrder[k]]) > 0)])

(***************************************************************************)
(* The functions of the program called on their own, on arguments drawn    *)
(* from the sets below.                                                    *)
(***************************************************************************)
\* address parts and prefixes given to SimpleConcatAddress
AddressParts == {"", "1::/96", "20:0:0/96", "1::", "21:0:0", "/64", "1::/96/64"}

Prefixes == {"", "2001:db8:1::", "2001:db8:", "fd00", ":", "::"}

\* addresses given to isValidIPv6Address
Addresses ==
    {"", "fd00", "::", "::1", "2001:db8:1:20::", "2001:db8:1:20::/96", "2001:DB8::1",
     "1:2:3:4:5:6:7:8", "1:2:3:4:5:6:7:8/128", "1:2:3:4:5:6:7:8/129", "1:2:3:4:5:6:7:8/0",
     "1:2:3", "1:2:3/64", "1:2:3:4:5:6:7:8:9", "1::2:3:4:5:6:7:8", "::1:2:3:4:5:6:7",
     ":1:2:3:4:5:6:7", "1:::2", "1::2::3", "12345::1", "g::1",
     "2001:db8::/x", "2001:db8::/", "2001:db8::/-1", "2001:db8::/6/4"}

\* lists of mappings given to findCommonIPv6Prefix
MappingLists ==
    { <<>>,
      <<NetmapMapping("2001:db8:1:20:0:0", "fd00:0:1:20:0:0"),
        NetmapMapping("2001:db8:1:21:0:0", "fd00:0:1:21:0:0"),
        NetmapMapping("2001:db8:1:22:0:0", "fd00:0:2:22:0:0")>>,
      <<NetmapMapping("2001:db8:1:20::/96", "fd00:1::/96"),
        NetmapMapping("2001:db8:2:20::/96", "fd01:1::/96")>>,
      <<NetmapMapping("2001:db8:1::/48", "fd00::/48")>>,
      <<NetmapMapping("2001:db8:1::/48", "fd00:1:2:3::/64"),
        NetmapMapping("2001:db8:1::/48", "fd00:1:2:4::/64")>>,
      <<NetmapMapping("2001:db8:1:", "fd00")>>,
      <<NetmapMapping("2001:db8:1:20::/96", "::1"),
        NetmapMapping("2001:db9:1:20::/96", "::2")>>,
      <<NetmapMapping("2001:db8::1", "fd00:1"),
        NetmapMapping("2002:db8::1", "fd00:1")>>,
      <<NetmapMapping("2001:db8:1::/96", "fd00:1::/96"),
        NetmapMapping("2001:db8:1:21::/96", "fd00:1:21::/96")>> }

NetworkInterface(name) == [Name |-> name, IPv4Addresses |-> <<>>, IPv6Addresses |-> <<>>]

Route(iface) == [Destination |-> "default", Gateway |-> "fe80::1", Interface |-> iface]

NetmapRule(iface, direction, source, toAddress) ==
    [Interface |-> iface, Direction |-> direction, Chain |-> direction, Source |-> source,
     Destination |-> "", ToAddress |-> toAddress]

Nat66Rule(iface) ==
    [Interface |-> iface, Direction |-> "POSTROUTING", Chain |-> "POSTROUTING",
     Target |-> "MASQUERADE", Source |-> "", Destination |-> ""]

Discovered(interfaces, routes, radvdConfig, netmapRules, nat66Rules) ==
    [interfaces |-> interfaces, routes |-> routes, radvdConfig |-> radvdConfig,
     netmapRules |-> netmapRules, nat66Rules |-> nat66Rules]

\* what the scans hand to generateConfigYAML
Scans ==
    { \* an interface and nothing else
      Discovered(<<NetworkInterface("e0")>>, <<>>, <<>>, <<>>, <<>>),
      \* an interface with a default route, advertisements, mappings and NAT66
      Discovered(<<NetworkInterface("e0")>>, <<Route("e0")>>,
                 "e0" :> [AdvSendAdvert |-> TRUE, AdvManagedFlag |-> TRUE,
                          MinRtrAdvInterval |-> 10, MaxRtrAdvInterval |-> 0,
                          AdvDefaultLifetime |-> 0,
                          Prefixes |-> <<[Prefix |-> "2001:db8:1::/64", OnLink |-> TRUE,
                                          Autonomous |-> TRUE, RouterAddr |-> FALSE]>>,
                          Routes |-> <<[Prefix |-> "2001:db8:1:20::/96", Preference |-> "low",
                                        Lifetime |-> 600],
                                       [Prefix |-> "2001:db8:1:20::/96", Preference |-> "medium",
                                        Lifetime |-> 1200]>>],
                 "e0" :> <<NetmapRule("e0", "POSTROUTING", "fd00:0:1:20::/96", "2001:db8:1:20::/96"),
                           NetmapRule("e0", "POSTROUTING", "fd00:0:1:21::/96", "2001:db8:1:21::/96"),
                           NetmapRule("e0", "PREROUTING", "2001:db8:1:20::/96", "fd00:0:1:20::/96")>>,
                 "e0" :> <<Nat66Rule("e0")>>),
      \* NETMAP rules that give no mapping, an empty list of NAT66 rules
      Discovered(<<NetworkInterface("e0")>>, <<>>, <<>>,
                 "e0" :> <<NetmapRule("e0", "POSTROUTING", "", "")>>,
                 "e0" :> <<>>),
      \* two interfaces, one with a route, one advertised without prefixes
      Discovered(<<NetworkInterface("e0"), NetworkInterface("e1")>>, <<Route("e0")>>,
                 "e1" :> [AdvSendAdvert |-> TRUE, AdvManagedFlag |-> FALSE,
                          MinRtrAdvInterval |-> 0, MaxRtrAdvInterval |-> 0,
                          AdvDefaultLifetime |-> 0, Prefixes |-> <<>>, Routes |-> <<>>],
                 <<>>, <<>>),
      \* an interface known only from its PREROUTING rules
      Discovered(<<>>, <<>>, <<>>,
                 "e2" :> <<NetmapRule("e2", "PREROUTING", "2001:db8:2::/96", "fd00:2::/96"),
                           NetmapRule("e2", "PREROUTING", "2001:db8:3::/96", "fd00:3::/96")>>,
                 <<>>) }

\* the keys of the maps extractNetmapMappings may build from the scan
SourcesOf(scan) ==
    UNION {{scan.netmapRules[n][i].Source : i \in 1..Len(scan.netmapRules[n])} :
              n \in DOMAIN scan.netmapRules}

InitCalls ==
    /\ cfg = Doc("ok", <<>>)
    /\ tables = EmptyTables
    /\ InitRun

CallSimpleConcatAddress ==
    /\ call.fn = ""
    /\ \E addressPart \in AddressParts, prefix \in Prefixes :
         call' = Called("SimpleConcatAddress", <<addressPart, prefix>>,
                        SimpleConcatAddress(addressPart, prefix))
    /\ UNCHANGED <<cfg, tables, radvd, fails, pc, run, site, currentRules, newRules,
                   rulesToAdd, rulesToRemove, queue, log, err, prevClean, before>>

CallIsValidIPv6Address ==
    /\ call.fn = ""
    /\ \E addr \in Addresses :
         call' = Called("isValidIPv6Address", <<addr>>, isValidIPv6Address(addr))
    /\ UNCHANGED <<cfg, tables, radvd, fails, pc, run, site, currentRules, newRules,
                   rulesToAdd, rulesToRemove, queue, log, err, prevClean, before>>

CallFindCommonIPv6Prefix ==
    /\ call.fn = ""
    /\ \E mappings \in MappingLists, isPublic \in BOOLEAN :
         call' = Called("findCommonIPv6Prefix", <<mappings, isPublic>>,
                        findCommonIPv6Prefix(mappings, isPublic))
    /\ UNCHANGED <<cfg, tables, radvd, fails, pc, run, site, currentRules, newRules,
                   rulesToAdd, rulesToRemove, queue, log, err, prevClean, before>>

(***************************************************************************)
(* Configuration maker: the advertisement configuration read back.         *)
(***************************************************************************)
RECURSIVE PrefixBlockLines(_, _, _, _)
\* the block collection loop of parsePrefixBlocks from line j on, for the
\* declaration at line i: the lines after the declaration, up to the line at
\* which the brace count is back at zero
PrefixBlockLines(lines, i, j, braceCount) ==
    IF j > Len(lines) THEN <<>>
    ELSE LET count == braceCount + Count(lines[j], "{") - Count(lines[j], "}")
             piece == IF j > i THEN <<lines[j]>> ELSE <<>>
         IN  IF count = 0 /\ Contains(lines[j], "}") THEN piece
             ELSE piece \o PrefixBlockLines(lines, i, j + 1, count)

\* the line at which the block of the declaration at line i opens
BraceStart(lines, i) ==
    IF Contains(lines[i], "{") \/ \A j \in (i + 1)..Len(lines) : ~Contains(lines[j], "{") THEN i
    ELSE Min({j \in (i + 1)..Len(lines) : Contains(lines[j], "{")})

\* the flag loop of parsePrefixBlocks: the branch of the else-if chain a
\* block line takes, and the value the last line of a branch leaves
FlagBranch(blockLine) ==
    IF Contains(blockLine, "AdvOnLink") THEN "OnLink"
    ELSE IF Contains(blockLine, "AdvAutonomous") THEN "Autonomous"
    ELSE IF Contains(blockLine, "AdvRouterAddr") THEN "RouterAddr"
    ELSE ""

FlagValue(blockLines, branch, default) ==
    LET last(I) == IF I = {} THEN default ELSE Contains(blockLines[Max(I)], "on")
    IN  last({k \in 1..Len(blockLines) : FlagBranch(blockLines[k]) = branch})

\* the RadvdPrefix of the declaration at line i
PrefixAt(lines, i) ==
    LET parsed(blockLines) ==
            [Prefix     |-> Fields(TrimSpace(lines[i]))[2],
             OnLink     |-> FlagValue(blockLines, "OnLink", TRUE),
             Autonomous |-> FlagValue(blockLines, "Autonomous", TRUE),
             RouterAddr |-> FlagValue(blockLines, "RouterAddr", FALSE)]
    IN  parsed(PrefixBlockLines(lines, i, BraceStart(lines, i), 0))

RECURSIVE PrefixesFrom(_, _)
PrefixesFrom(lines, i) ==
    IF i > Len(lines) THEN <<>>
    ELSE (IF HasPrefix(TrimSpace(lines[i]), "prefix ") /\ Len(Fields(TrimSpace(lines[i]))) >= 2
          THEN <<PrefixAt(lines, i)>> ELSE <<>>)
         \o PrefixesFrom(lines, i + 1)

\* configmaker.parsePrefixBlocks
parsePrefixBlocks(content) == PrefixesFrom(Split(content, "\n"), 1)

\* a word character of the regular expressions: [0-9A-Za-z_]
IsWordChar(c) ==
    c \in {"0", "1", "2", "3", "4", "5", "6", "7", "8", "9", "_",
           "a", "b", "c", "d", "e", "f", "g", "h", "i", "j", "k", "l", "m",
           "n", "o", "p", "q", "r", "s", "t", "u", "v", "w", "x", "y", "z",
           "A", "B", "C", "D", "E", "F", "G", "H", "I", "J", "K", "L", "M",
           "N", "O", "P", "Q", "R", "S", "T", "U", "V", "W", "X", "Y", "Z"}

\* configmaker.extractNumber: the leftmost match of \b(\d+)\b, a run of digits
\* with no word character on either side; -1 when there is none
extractNumber(line) ==
    LET digit(i) == DigitValue(CharAt(line, i)) >= 0
        runEnd(i) == Min({j \in i..Len(line) : j = Len(line) \/ ~digit(j + 1)})
        matches == {i \in 1..Len(line) :
                       /\ digit(i)
                       /\ i = 1 \/ ~IsWordChar(CharAt(line, i - 1))
                       /\ runEnd(i) = Len(line) \/ ~IsWordChar(CharAt(line, runEnd(i) + 1))}
    IN  IF matches = {} THEN -1
        ELSE DecimalValue(SubSeq(line, Min(matches), runEnd(Min(matches))), 1, 0)

\* configmaker.removeCommentsPreserveStructure: every line cut at its first "#"
removeCommentsPreserveStructure(content) ==
    LET cut(line) == IF Index(line, "#") > 0 THEN SubSeq(line, 1, Index(line, "#") - 1) ELSE line
        kept(lines) == Strict([k \in 1..Len(lines) |-> cut(lines[k])])
    IN  Join(kept(Split(content, "\n")), "\n")

\* the key loop of parseInterfaceBlock: the branch of the else-if chain a
\* line takes
SettingBranch(line) ==
    IF line = "" \/ HasPrefix(line, "#") THEN ""
    ELSE IF Contains(line, "AdvManagedFlag") THEN "AdvManagedFlag"
    ELSE IF Contains(line, "MinRtrAdvInterval") THEN "MinRtrAdvInterval"
    ELSE IF Contains(line, "MaxRtrAdvInterval") THEN "MaxRtrAdvInterval"
    ELSE IF Contains(line, "AdvDefaultLifetime") THEN "AdvDefaultLifetime"
    ELSE ""

\* the value the last assigning line of a branch leaves in a number field
NumberSetting(lines, branch, default) ==
    LET last(I) == IF I = {} THEN default ELSE extractNumber(TrimSpace(lines[Max(I)]))
    IN  last({k \in 1..Len(lines) : /\ SettingBranch(TrimSpace(lines[k])) = branch
                                    /\ extractNumber(TrimSpace(lines[k])) >= 0})

ManagedSetting(lines) ==
    LET last(I) == IF I = {} THEN FALSE ELSE Contains(TrimSpace(lines[Max(I)]), "on")
    IN  last({k \in 1..Len(lines) : SettingBranch(TrimSpace(lines[k])) = "AdvManagedFlag"})

\* configmaker.parseInterfaceBlock (the Routes field, which parseRouteBlocks
\* fills, is left out)
parseInterfaceBlock(block) ==
    LET parsed(lines) ==
            [AdvSendAdvert      |-> TRUE,
             AdvManagedFlag     |-> ManagedSetting(lines),
             MinRtrAdvInterval  |-> NumberSetting(lines, "MinRtrAdvInterval", 30),
             MaxRtrAdvInterval  |-> NumberSetting(lines, "MaxRtrAdvInterval", 60),
             AdvDefaultLifetime |-> NumberSetting(lines, "AdvDefaultLifetime", 180),
             Prefixes           |-> parsePrefixBlocks(block)]
    IN  parsed(Split(block, "\n"))

\* a block that runs to the end of the file
InterfaceBlockEndOfFile(lines, j, braceCount, startCollecting) == Len(lines)

RECURSIVE InterfaceBlockEnd(_, _, _, _)
\* the block collection loop of parseRadvdConfig from line j on: the line at
\* which the brace count is back at zero, 0 when the loop runs out of lines
InterfaceBlockEnd(lines, j, braceCount, startCollecting) ==
    IF j > Len(lines) THEN 0
    ELSE LET start == startCollecting \/ Contains(lines[j], "{")
             count == IF start
                      THEN braceCount + Count(lines[j], "{") - Count(lines[j], "}")
                      ELSE braceCount
         IN  IF start /\ count = 0 THEN j
             ELSE InterfaceBlockEnd(lines, j + 1, count, start)

\* the lines blockContent holds for the declaration at line i when the block
\* ends at line end: the lines from the first one with "{" on
InterfaceBlockContent(lines, i, end) ==
    LET opening == Min({j \in BraceStart(lines, i)..end : Contains(lines[j], "{")} \cup {end})
    IN  Join(SubSeq(lines, opening, end), "\n") \o "\n"

RECURSIVE InterfacesFrom(_, _, _)
\* the line loop of parseRadvdConfig from line i on
InterfacesFrom(lines, i, interfaces) ==
    IF i > Len(lines) THEN interfaces
    ELSE LET declared == /\ HasPrefix(TrimSpace(lines[i]), "interface ")
                         /\ Len(Fields(TrimSpace(lines[i]))) >= 2
             recorded(end) ==
                 IF end = 0 THEN InterfacesFrom(lines, i + 1, interfaces)
                 ELSE InterfacesFrom(lines, end + 1,
                          (Fields(TrimSpace(lines[i]))[2]
                               :> parseInterfaceBlock(InterfaceBlockContent(lines, i, end)))
                          @@ interfaces)
         IN  IF declared
             THEN recorded(InterfaceBlockEnd(lines, BraceStart(lines, i), 0, FALSE))
             ELSE InterfacesFrom(lines, i + 1, interfaces)

\* configmaker.parseRadvdConfig: the interfaces by name
parseRadvdConfig(content) ==
    InterfacesFrom(Split(removeCommentsPreserveStructure(content), "\n"), 1, <<>>)

\* the prefix sub-block as radv.GenerateConfig writes it; a flag that is ""
\* has no line
PrefixBlock(prefix, onLink, autonomous, routerAddr) ==
    <<"    prefix " \o prefix \o " {">>
    \o (IF onLink # "" THEN <<"        AdvOnLink " \o onLink \o ";">> ELSE <<>>)
    \o (IF autonomous # "" THEN <<"        AdvAutonomous " \o autonomous \o ";">> ELSE <<>>)
    \o (IF routerAddr # "" THEN <<"        AdvRouterAddr " \o routerAddr \o ";">> ELSE <<>>)
    \o <<"    };">>

\* the values a flag is written with
FlagWords == {"on", "off", ""}

RECURSIVE Install(_, _, _)
\* the tables after the rules have been appended from the i-th on
Install(t, rules, i) ==
    IF i > Len(rules) THEN t ELSE Install(CmdEffect(t, rules[i]), rules, i + 1)

\* no mapping set
NoSet == [Name |-> "", Enabled |-> FALSE, PfxPub |-> "", PfxPriv |-> "", Maps |-> <<>>]

\* the ip6tables nat table with the rules compiled from a mapping set on e0
Compiled(n) ==
    [n |-> n,
     lines |-> Install(EmptyTables, GenerateIp6tablesRules(n, "e0"), 1)["ip6tables nat"]]

\* an ip6tables nat table that was not compiled from a mapping set
Found(lines) == [n |-> NoSet, lines |-> lines]

\* the live NETMAP tables the configuration maker scans
ScannedTables ==
    {Compiled(NewNetmap6("c1", c)) : c \in {NmA, NmAB, NmSkip}}
    \cup
    { \* inbound rules only
      Found(<<"-A PREROUTING -d 2001:db8:1::/96 -i e0 -j NETMAP --to fd00:1::/96",
              "-A PREROUTING -d 2001:db8:2::/96 -i e0 -j NETMAP --to fd00:2::/96">>),
      \* an inbound rule that matches a source as well
      Found(<<"-A PREROUTING -s 2001:db8:9::/64 -d 2001:db8:1::/96 -i e0 -j NETMAP --to fd00:1::/96">>),
      \* the outbound rule of one pair, the inbound rule of another, a rule
      \* without interface and a rule on another interface
      Found(<<"-A POSTROUTING -s fd00:1::/96 -o e0 -j NETMAP --to 2001:db8:1::/96",
              "-A PREROUTING -d 2001:db8:2::/96 -i e0 -j NETMAP --to fd00:2::/96",
              "-A POSTROUTING -s fd00:5::/96 -j NETMAP --to 2001:db8:5::/96",
              "-A POSTROUTING -s fd00:6::/96 -o e1 -j NETMAP --to 2001:db8:6::/96">>),
      \* an outbound rule that matches no source
      Found(<<"-A POSTROUTING -o e0 -j NETMAP --to 2001:db8:1::/96">>) }

\* the keys of the maps extractNetmapMappings builds from the rules
SourceKeys(rules) == {rules[i].Source : i \in 1..Len(rules)}

CallExtractNetmapMappings ==
    /\ call.fn = ""
    /\ \E scanned \in ScannedTables :
       \E iface \in DOMAIN scanNetmapRules([EmptyTables EXCEPT !["ip6tables nat"] = scanned.lines]) :
       \E order \in Perms(SourceKeys(scanNetmapRules(
                              [EmptyTables EXCEPT !["ip6tables nat"] = scanned.lines])[iface])) :
         call' = Called("extractNetmapMappings",
                        <<scanned, iface,
                          scanNetmapRules([EmptyTables EXCEPT !["ip6tables nat"] = scanned.lines])[iface]>>,
                        extractNetmapMappings(
                            scanNetmapRules([EmptyTables EXCEPT !["ip6tables nat"] = scanned.lines])[iface],
                            order))
    /\ UNCHANGED <<cfg, tables, radvd, fails, pc, run, site, currentRules, newRules,
                   rulesToAdd, rulesToRemove, queue, log, err, prevClean, before>>

\* the publicPath / privatePath of every mapping as generateConfigYAML writes
\* them into the pair, under the prefixes extracted for the mappings
RelativePaths(mappings, prefixConfig) ==
    [i \in 1..Len(mappings) |->
        [publicPath  |-> IF prefixConfig.PublicPrefix # ""
                         THEN removePrefix(mappings[i].Public, prefixConfig.PublicPrefix)
                         ELSE mappings[i].Public,
         privatePath |-> IF prefixConfig.PrivatePrefix # ""
                         THEN removePrefix(mappings[i].Private, prefixConfig.PrivatePrefix)
                         ELSE mappings[i].Private]]

CallRemovePrefix ==
    /\ call.fn = ""
    /\ \E mappings \in MappingLists :
         call' = Called("removePrefix", <<mappings, extractNetmapPrefixes(mappings)>>,
                        RelativePaths(mappings, extractNetmapPrefixes(mappings)))
    /\ UNCHANGED <<cfg, tables, radvd, fails, pc, run, site, currentRules, newRules,
                   rulesToAdd, rulesToRemove, queue, log, err, prevClean, before>>

\* the scanners that read the "-L -n" / "-L -n -v" listing
ListingScanners ==
    {"parseNetmapRulesFromList", "parseNetmapRulesForConfig", "parseNat66RulesForConfig"}

\* ip6tables nat tables with NAT66 rules
Nat66Tables ==
    { <<"-A POSTROUTING -o e0 -j MASQUERADE",
        "-A POSTROUTING -s fd00:1::/64 -o e0 -j MASQUERADE",
        "-A POSTROUTING -j MASQUERADE">>,
      <<"-A PREROUTING -d 2001:db8:1::5/128 -i e0 -p tcp -j DNAT --to-destination fd00:1::5",
        "-A POSTROUTING -s fd00:1::/96 -o e0 -j NETMAP --to 2001:db8:1::/96">> }

\* the rules a scanner produces from the listing, in the order of the listing
ScannerRules(scanner, output) ==
    CASE scanner = "parseNetmapRulesFromList" -> parseNetmapRulesFromList(output)
      [] scanner = "parseNetmapRulesForConfig" -> ScanForConfig(OutputLines(output), 1, "")
      [] scanner = "parseNat66RulesForConfig" -> ScanNat66ForConfig(OutputLines(output), 1, "")

CallListingScanner ==
    /\ call.fn = ""
    /\ \E scanner \in ListingScanners :
       \E lines \in {scanned.lines : scanned \in ScannedTables} \cup Nat66Tables :
         call' = Called(scanner, <<lines>>,
                        ScannerRules(scanner,
                            ListTable([EmptyTables EXCEPT !["ip6tables nat"] = lines],
                                      "ip6tables nat")))
    /\ UNCHANGED <<cfg, tables, radvd, fails, pc, run, site, currentRules, newRules,
                   rulesToAdd, rulesToRemove, queue, log, err, prevClean, before>>

\* an interface block with one prefix sub-block, or with two
CallParsePrefixBlocks ==
    /\ call.fn = ""
    /\ \E onLink, autonomous, routerAddr \in FlagWords, second \in BOOLEAN :
         call' = Called("parsePrefixBlocks",
                        <<<<[Prefix |-> "2001:db8:1::/64", OnLink |-> onLink,
                             Autonomous |-> autonomous, RouterAddr |-> routerAddr]>>
                          \o (IF second
                              THEN <<[Prefix |-> "2001:db8:2::/64", OnLink |-> "off",
                                      Autonomous |-> "on", RouterAddr |-> "on"]>>
                              ELSE <<>>)>>,
                        parsePrefixBlocks(
                            Join(<<"{", "    AdvSendAdvert on;">>
                                 \o PrefixBlock("2001:db8:1::/64", onLink, autonomous, routerAddr)
                                 \o (IF second
                                     THEN PrefixBlock("2001:db8:2::/64", "off", "on", "on")
                                     ELSE <<>>)
                                 \o <<"};">>, "\n")))
    /\ UNCHANGED <<cfg, tables, radvd, fails, pc, run, site, currentRules, newRules,
                   rulesToAdd, rulesToRemove, queue, log, err, prevClean, before>>

\* an interface declaration of radvd.conf: the settings that have a line (-1
\* and "" for none), the opening brace on the declaration line or below it,
\* and a sub-block before or after the settings
Declaration(name, intervals, lifetime, managed, braceBelow, sub) ==
    [Name |-> name, Intervals |-> intervals, Lifetime |-> lifetime, Managed |-> managed,
     BraceBelow |-> braceBelow, Sub |-> sub]

\* the lines of the declaration, in the layout radv.GenerateConfig writes
DeclarationLines(d) ==
    LET settings ==
            <<"    AdvSendAdvert on;">>
            \o (IF d.Intervals
                THEN <<"    MinRtrAdvInterval 10;", "    MaxRtrAdvInterval 20;">> ELSE <<>>)
            \o (IF d.Lifetime >= 0
                THEN <<"    AdvDefaultLifetime " \o ToString(d.Lifetime) \o ";">> ELSE <<>>)
            \o (IF d.Managed # ""
                THEN <<"    AdvManagedFlag " \o d.Managed \o ";", "    AdvOtherConfigFlag on;">>
                ELSE <<>>)
            \o <<"    # MaxRtrAdvInterval 600; {">>
        prefix == PrefixBlock("2001:db8:1::/64", "on", "off", "")
        route == <<"    route 2001:db8:1:20::/96 { AdvRoutePreference medium; AdvRouteLifetime 3600; };">>
    IN  (IF d.BraceBelow THEN <<"interface " \o d.Name, "{">>
         ELSE <<"interface " \o d.Name \o " {">>)
        \o (CASE d.Sub = "prefix first" -> prefix \o settings
              [] d.Sub = "prefix" -> settings \o prefix
              [] d.Sub = "route" -> settings \o route
              [] OTHER -> settings)
        \o <<"};">>

\* radvd.conf with one interface, or with a second one after it
CallParseRadvdConfig ==
    /\ call.fn = ""
    /\ \E intervals, braceBelow, second \in BOOLEAN, lifetime \in {-1, 0, 90},
          managed \in {"", "on", "off"}, sub \in {"", "prefix", "prefix first", "route"} :
         LET first == Declaration("e0", intervals, lifetime, managed, braceBelow, sub)
             other == Declaration("e1", ~intervals, 45, "on", FALSE, "")
             declared == IF second THEN <<first, other>> ELSE <<first>>
         IN  call' = Called("parseRadvdConfig", <<declared>>,
                            parseRadvdConfig(
                                Join(DeclarationLines(first)
                                     \o (IF second THEN <<"">> \o DeclarationLines(other)
                                         ELSE <<>>),
                                     "\n") \o "\n"))
    /\ UNCHANGED <<cfg, tables, radvd, fails, pc, run, site, currentRules, newRules,
                   rulesToAdd, rulesToRemove, queue, log, err, prevClean, before>>

\* NETMAP rules as the -S listing prints them
ListedRules ==
    {"-A PREROUTING -d 2001:db8:1::/96 -i e0 -j NETMAP --to fd00:1::/96",
     "-A PREROUTING -s 2001:db8:9::/64 -d 2001:db8:1::/96 -i e0 -j NETMAP --to fd00:1::/96",
     "-A PREROUTING -d 2001:db8:1::/96 -i e0 -p tcp -j NETMAP --to fd00:1::/96",
     "-A PREROUTING -d 2001:db8:1::/96 -i e1 -j NETMAP --to fd00:1::/96",
     "-A PREROUTING -d 2001:db8:1::/96 -i e0 -j NETMAP --to fd00:2::/96",
     "-A POSTROUTING -s fd00:1::/96 -o e0 -j NETMAP --to 2001:db8:1::/96",
     "-A POSTROUTING -s fd00:1::/96 -d 2001:db8:9::/64 -o e0 -j NETMAP --to 2001:db8:1::/96"}

\* rule texts given to normalizeRule as they are
RuleTexts ==
    {"ip6tables -t nat -A PREROUTING -i e0 -d 2001:db8:1::/96 -j NETMAP --to fd00:1::/96",
     "ip6tables -t nat -A prerouting -i e0 -d 2001:db8:1::/96 -j netmap --to fd00:1::/96",
     "ip6tables -t nat -A PREROUTING -d 2001:db8:1::/96 -i e0 -j Netmap --to fd00:1::/96",
     "ip6tables -t nat -A POSTROUTING -o e0 -s fd00:1::/96 -j NETMAP --to 2001:db8:1::/96",
     "ip6tables -t nat -A PostRouting -o e0 -s fd00:1::/96 -j NETMAP --to 2001:db8:1::/96",
     "ip6tables -t nat -A POSTROUTING -o e0 -s fd00:1::/96 -j NETMAP --to 2001:DB8:1::/96"}

\* how a rule reaches normalizeRule: as a text of the desired set, or through
\* getCurrentNetmapRules from the -S listing or from the -L -n listing
KeyModes == {"text", "-S", "-L -n"}

\* the key ApplyNetmapRules compares the rule by; the empty sequence if the
\* listing gives no rule
KeyThrough(mode, rule) ==
    LET keys(rules) == normalizeRules(rules)
    IN  IF mode = "text" THEN keys(<<rule>>)
        ELSE keys(getCurrentNetmapRules([EmptyTables EXCEPT !["ip6tables nat"] = <<rule>>],
                                        mode = "-S", TRUE).rules)

CallNormalizeRule ==
    /\ call.fn = ""
    /\ \E mode \in KeyModes :
       \E rule1, rule2 \in (IF mode = "text" THEN RuleTexts ELSE ListedRules) :
         call' = Called("normalizeRule", <<mode, rule1, rule2>>,
                        <<KeyThrough(mode, rule1), KeyThrough(mode, rule2)>>)
    /\ UNCHANGED <<cfg, tables, radvd, fails, pc, run, site, currentRules, newRules,
                   rulesToAdd, rulesToRemove, queue, log, err, prevClean, before>>

\* a mapping set with pairs whose expanded addresses are no IPv6 addresses
NmBad == [Enabled |-> TRUE, PfxPub |-> "2001:db8::", PfxPriv |-> "",
          Maps |-> <<<<"1::/96", "fd00:1::/96">>, <<"g::/96", "fd00:2::/96">>,
                     <<"2::/96", "fd00:3::/129">>, <<"3::/96", "fd00">>>>]

\* the mapping sets compiled on their own
MappingSets == {NewNetmap6("c1", c) : c \in {NmA, NmAB, NmDup, NmSkip, NmEmpty, NmOff, NmBad}}

\* GetRadvRoutes without the validation of the public address
GetRadvRoutesUnvalidated(n) ==
    IF ~n.Enabled THEN <<>>
    ELSE Flatten(Strict([k \in 1..Len(n.Maps) |->
            IF n.Maps[k].Radv.present
            THEN <<[Prefix     |-> SimpleConcatAddress(n.Maps[k].Public, n.PfxPub),
                    Preference |-> n.Maps[k].Radv.Preference,
                    Metric     |-> n.Maps[k].Radv.Metric,
                    Lifetime   |-> n.Maps[k].Radv.Lifetime]>>
            ELSE <<>>]))

\* netmap6.GetRadvRoutes
GetRadvRoutes(n) ==
    IF ~n.Enabled THEN <<>>
    ELSE Flatten(Strict([k \in 1..Len(n.Maps) |->
            IF n.Maps[k].Radv.present
               /\ isValidIPv6Address(SimpleConcatAddress(n.Maps[k].Public, n.PfxPub))
            THEN <<[Prefix     |-> SimpleConcatAddress(n.Maps[k].Public, n.PfxPub),
                    Preference |-> n.Maps[k].Radv.Preference,
                    Metric     |-> n.Maps[k].Radv.Metric,
                    Lifetime   |-> n.Maps[k].Radv.Lifetime]>>
            ELSE <<>>]))

\* mapping sets with advertisement annotations: on valid and invalid public
\* addresses, beside pairs without annotation; enabled and disabled
NmRadv == [Enabled |-> TRUE, PfxPub |-> "2001:db8::", PfxPriv |-> "fd00:",
           Maps |-> <<<<"1::/96", "1::/96", "high", 1800>>, <<"2::/96", "2::/96">>,
                      <<"g::/96", "3::/96", "low", 600>>, <<"4::/96", "4::/96", "medium">>,
                      <<"5::/129", "5::/96", "medium", 3600>>,
                      <<"6::/96", "6::/96", "low", 0>>>>]

NmRadvOff == [NmRadv EXCEPT !.Enabled = FALSE]

AnnotatedSets == MappingSets \cup {NewNetmap6("c1", NmRadv), NewNetmap6("c1", NmRadvOff)}

CallGetRadvRoutes ==
    /\ call.fn = ""
    /\ \E n \in AnnotatedSets :
         call' = Called("GetRadvRoutes", <<n>>, GetRadvRoutes(n))
    /\ UNCHANGED <<cfg, tables, radvd, fails, pc, run, site, currentRules, newRules,
                   rulesToAdd, rulesToRemove, queue, log, err, prevClean, before>>

CallGenerateIp6tablesRules ==
    /\ call.fn = ""
    /\ \E n \in MappingSets, interfaceName \in {"e0", ""} :
         call' = Called("GenerateIp6tablesRules", <<n, interfaceName>>,
                        GenerateIp6tablesRules(n, interfaceName))
    /\ UNCHANGED <<cfg, tables, radvd, fails, pc, run, site, currentRules, newRules,
                   rulesToAdd, rulesToRemove, queue, log, err, prevClean, before>>

CallGenerateConfigYAML ==
    /\ call.fn = ""
    /\ \E scan \in Scans, slim \in BOOLEAN :
       \E ifaceOrder \in Perms(AllInterfaces(scan.interfaces, scan.radvdConfig,
                                               scan.netmapRules, scan.nat66Rules)) :
       \E sourceOrder \in Perms(SourcesOf(scan)) :
         call' = Called("generateConfigYAML", <<scan, slim>>,
                        generateConfigYAML(scan.interfaces, scan.routes, scan.radvdConfig,
                                           scan.netmapRules, scan.nat66Rules, slim,
                                           ifaceOrder, sourceOrder))
    /\ UNCHANGED <<cfg, tables, radvd, fails, pc, run, site, currentRules, newRules,
                   rulesToAdd, rulesToRemove, queue, log, err, prevClean, before>>

NextCalls ==
    \/ CallSimpleConcatAddress
    \/ CallIsValidIPv6Address
    \/ CallFindCommonIPv6Prefix
    \/ CallGenerateConfigYAML
    \/ CallNormalizeRule
    \/ CallGenerateIp6tablesRules
    \/ CallRemovePrefix
    \/ CallExtractNetmapMappings
    \/ CallParsePrefixBlocks
    \/ CallListingScanner
    \/ CallParseRadvdConfig
    \/ CallGetRadvRoutes

SpecCalls == InitCalls /\ [][NextCalls]_vars

(***************************************************************************)
(* Properties.                                                             *)
(***************************************************************************)
\* every command the run has invoked so far succeeded
AllOk(l) == \A k \in 1..Len(l) : l[k].ok

NetmapKeys(rules) == {NetmapNormalizeRule(rules[i]) : i \in 1..Len(rules)}

\* the commands of the kinds given that the site has invoked or has still to
\* invoke, in order
Attempts(p, kinds) ==
    LET invoked == SelectSeq(log[p], LAMBDA e : e.site = site[p] /\ e.kind \in kinds)
        waiting == SelectSeq(queue[p], LAMBDA c : c.kind \in kinds)
    IN  [k \in 1..Len(invoked) |-> invoked[k].text] \o [k \in 1..Len(waiting) |-> waiting[k].text]

\* C2 (diff correctness): at the NETMAP site, for the desired rules D and the
\* observed rules O of the pass, D possibly empty, the add list is exactly
\* the rules of D whose key is not a key of O and the remove list exactly the
\* rules of O whose key is not a key of D; the executor loops attempt the
\* appending of exactly the former and the deletion of exactly the latter; the
\* keys of the add list, of the remove list and the keys common to D and O
\* are pairwise disjoint and together are the keys of D and O.
C2_DiffCorrect ==
    \A p \in Procs :
        (site[p] = "netmap" /\ pc[p] = "exec") =>
            LET D  == newRules[p]
                O  == currentRules[p]
                toAdd    == SelectSeq(D, LAMBDA r : NetmapNormalizeRule(r) \notin NetmapKeys(O))
                toRemove == SelectSeq(O, LAMBDA r : NetmapNormalizeRule(r) \notin NetmapKeys(D))
                KA == NetmapKeys(rulesToAdd[p])
                KR == NetmapKeys(rulesToRemove[p])
                KI == NetmapKeys(D) \cap NetmapKeys(O)
            IN  /\ rulesToAdd[p] = toAdd
                /\ rulesToRemove[p] = toRemove
                /\ Attempts(p, {"add"}) = toAdd
                /\ Attempts(p, {"del"}) = [k \in 1..Len(toRemove) |-> Replace1(toRemove[k], "-A ", "-D ")]
                /\ KA \cap KR = {} /\ KA \cap KI = {} /\ KR \cap KI = {}
                /\ KA \cup KR \cup KI = NetmapKeys(D) \cup NetmapKeys(O)

\* what a raw rule text says: the tool and table, and the chain, direction,
\* interface, direction-relevant address, target and target argument
RuleTuple(rule) ==
    LET after(parts, I) == IF I = {} THEN "" ELSE parts[Min(I) + 1]
        val(parts, flags) == after(parts, {i \in 1..(Len(parts) - 1) : parts[i] \in flags})
        flagOf(parts, I) == IF I = {} THEN "" ELSE parts[Min(I)]
        direction(parts) == flagOf(parts, {i \in 1..(Len(parts) - 1) : parts[i] \in {"-i", "-o"}})
        argument(parts, I) ==
            IF I = {} THEN <<>> ELSE SubSeq(parts, Min(I) + 2, Len(parts))
        tuple(parts) ==
            [tool      |-> parts[1],
             table     |-> val(parts, {"-t"}),
             chain     |-> val(parts, {"-A"}),
             direction |-> direction(parts),
             interface |-> val(parts, {"-i", "-o"}),
             address   |-> IF direction(parts) = "-i" THEN val(parts, {"-d"})
                           ELSE val(parts, {"-s"}),
             target    |-> val(parts, {"-j"}),
             argument  |-> argument(parts, {i \in 1..(Len(parts) - 1) : parts[i] = "-j"})]
    IN  tuple(Fields(rule))

\* the canonical key of a rule at a site
SiteKey(s, rule) == IF s = "netmap" THEN NetmapNormalizeRule(rule) ELSE NatNormalizeRule(rule)

\* the keys the site is about to add and to remove
KeysOf(s, list) == {SiteKey(s, list[i]) : i \in 1..Len(list)}

\* C3 (canonical equivalence): at the NETMAP site and at the NAT sites, a
\* desired rule and an observed rule that say the same (chain, direction,
\* interface, relevant address, target, argument), however their raw texts
\* differ, have the same canonical key, and the pass puts the one on no add
\* list and the other on no remove list.
C3_CanonicalEquivalence ==
    \A p \in Procs :
        pc[p] = "exec" =>
            \A i \in 1..Len(newRules[p]), j \in 1..Len(currentRules[p]) :
                RuleTuple(newRules[p][i]) = RuleTuple(currentRules[p][j]) =>
                    /\ SiteKey(site[p], newRules[p][i]) = SiteKey(site[p], currentRules[p][j])
                    /\ SiteKey(site[p], newRules[p][i]) \notin KeysOf(site[p], rulesToAdd[p])
                    /\ SiteKey(site[p], currentRules[p][j]) \notin KeysOf(site[p], rulesToRemove[p])

\* the entries of the site's executor loops in the run's log
SiteEntries(p, kinds) == SelectSeq(log[p], LAMBDA e : e.site = site[p] /\ e.kind \in kinds)

\* the pass of the site is over: the run has gone on or has returned
PassOver(p) == pc[p] # "exec"

\* C4 as stated (addition-failure policy): at every site, NAT44, NAT66 and
\* NETMAP, a pass in which an append command failed has attempted every
\* member of the add list and returns one error that gives the number of
\* failed additions and the number of additions attempted.
C4_CollectAllEverywhere ==
    \A p \in Procs :
        (PassOver(p) /\ Len(FailedAdds(log[p], site[p])) > 0) =>
            /\ Len(SiteEntries(p, {"add"})) = Len(rulesToAdd[p])
            /\ err[p] # NoErr
            /\ err[p].failed = Len(FailedAdds(log[p], site[p]))
            /\ err[p].total = Len(rulesToAdd[p])

\* C4 amended: at the NETMAP site a pass in which an append command failed
\* has attempted every member of the add list and returns one error that
\* gives the number of failed additions and the length of the add list; at
\* the NAT44 and NAT66 sites the pass returns at the first append command
\* that fails, with an error that names that rule, and the members of the add
\* list after it are not attempted.
C4_AdditionFailurePolicy ==
    \A p \in Procs :
        (PassOver(p) /\ Len(FailedAdds(log[p], site[p])) > 0) =>
            IF site[p] = "netmap"
            THEN /\ Len(SiteEntries(p, {"add"})) = Len(rulesToAdd[p])
                 /\ err[p].kind = "failed to add netmap rules"
                 /\ err[p].failed = Len(FailedAdds(log[p], site[p]))
                 /\ err[p].total = Len(rulesToAdd[p])
            ELSE /\ Len(FailedAdds(log[p], site[p])) = 1
                 /\ log[p][Len(log[p])] = FailedAdds(log[p], site[p])[1]
                 /\ Len(SiteEntries(p, {"add"})) <= Len(rulesToAdd[p])
                 /\ err[p].kind = "failed to add rule"
                 /\ err[p].rule = log[p][Len(log[p])].text
                 /\ pc[p] = "done"

\* a NAT44 pass has returned at a failed append with members of its add list
\* not attempted
C4_Witness ==
    \E p \in Procs :
        /\ pc[p] = "done" /\ site[p] = "nat44"
        /\ err[p].kind = "failed to add rule"
        /\ Len(FailedAdds(log[p], site[p])) = 1
        /\ Len(SiteEntries(p, {"add"})) < Len(rulesToAdd[p])

\* the entries of the given kinds that failed
Failed(entries) == SelectSeq(entries, LAMBDA e : ~e.ok)

\* C5 (removal-failure policy): a delete command that fails never ends the
\* pass: the members of the remove list after it and then the members of the
\* add list are still attempted, and a pass whose only failures were deletes
\* returns no error.
C5_RemovalFailurePolicy ==
    \A p \in Procs :
        Len(Failed(SiteEntries(p, {"del"}))) > 0 =>
            /\ pc[p] = "exec" =>
                   /\ Len(Attempts(p, {"del"})) = Len(rulesToRemove[p])
                   /\ Len(Attempts(p, {"add"})) = Len(rulesToAdd[p])
            /\ PassOver(p) =>
                   /\ Len(SiteEntries(p, {"del"})) = Len(rulesToRemove[p])
                   /\ Len(Failed(SiteEntries(p, {"add"}))) = 0 =>
                          /\ Len(SiteEntries(p, {"add"})) = Len(rulesToAdd[p])
                          /\ err[p].kind \notin {"failed to add rule", "failed to add netmap rules",
                                                 "failed to list rules", "failed to get current rules"}

\* a run has ended without error although a delete failed, and an append was
\* invoked after the failed delete
C5_Witness ==
    \E p \in Procs :
        /\ pc[p] = "done" /\ err[p] = NoErr
        /\ \E i, j \in 1..Len(log[p]) :
               /\ i < j
               /\ log[p][i].kind = "del" /\ ~log[p][i].ok
               /\ log[p][j].kind = "add" /\ log[p][j].ok
               /\ log[p][i].site = log[p][j].site

\* the mutating commands of the site invoked so far in the run
SiteCommands(p) == SiteEntries(p, {"del", "add", "fallback"})

\* the command appends a rule
IsAppend(text) == CmdArgs(text)[4] = "-A"

\* C6 (executor ordering): within one pass of a site every delete command is
\* invoked before any append command; each delete command is the raw text of
\* an observed rule with its first "-A " replaced by "-D ", and each append
\* command is the raw text of a desired rule, unmodified.
C6_ExecutorOrdering ==
    \A p \in Procs :
        /\ \A i, j \in 1..Len(SiteCommands(p)) :
               (i < j /\ IsAppend(SiteCommands(p)[i].text)) => IsAppend(SiteCommands(p)[j].text)
        /\ \A i \in 1..Len(SiteCommands(p)) :
               IF IsAppend(SiteCommands(p)[i].text)
               THEN SiteCommands(p)[i].text \in Range(newRules[p])
               ELSE \E k \in 1..Len(currentRules[p]) :
                       SiteCommands(p)[i].text = Replace1(currentRules[p][k], "-A ", "-D ")

\* C7 (fatal input): when the configuration document is missing, cannot be
\* parsed or defines no links, the run returns an error without having
\* invoked any rule-table command and without having written the
\* advertisement configuration; tables and advertisement configuration are
\* as they were when the run started.
C7_FatalInput ==
    \A p \in Procs :
        (pc[p] # "idle" /\ (cfg.doc \in {"missing", "unparsable"} \/ DOMAIN cfg.links = {})) =>
            /\ pc[p] = "done"
            /\ err[p].kind \in {"config file not found", "failed to parse config",
                                "no links configured"}
            /\ log[p] = <<>>
            /\ tables = before[p].tables
            /\ radvd = before[p].radvd

\* a run over a readable document without links has returned its error, the
\* tables holding rules
C7_Witness ==
    \E p \in Procs :
        /\ pc[p] = "done"
        /\ cfg.doc = "ok" /\ DOMAIN cfg.links = {}
        /\ err[p].kind = "no links configured"
        /\ Len(tables["ip6tables nat"]) > 0

\* the append commands a mapping pair with an empty address would give rise
\* to, were it not skipped
EmptyPairCommands(links) ==
    UNION {UNION {UNION {
        {PostroutingRule(l, SimpleConcatAddress(links[l].Netmap6[c].Maps[k].Private,
                                                links[l].Netmap6[c].PfxPriv),
                            SimpleConcatAddress(links[l].Netmap6[c].Maps[k].Public,
                                                links[l].Netmap6[c].PfxPub)),
         PreroutingRule(l, SimpleConcatAddress(links[l].Netmap6[c].Maps[k].Public,
                                               links[l].Netmap6[c].PfxPub),
                           SimpleConcatAddress(links[l].Netmap6[c].Maps[k].Private,
                                               links[l].Netmap6[c].PfxPriv))} :
            k \in {k \in 1..Len(links[l].Netmap6[c].Maps) :
                      \/ links[l].Netmap6[c].Maps[k].Public = ""
                      \/ links[l].Netmap6[c].Maps[k].Private = ""}} :
        c \in DOMAIN links[l].Netmap6} :
    l \in DOMAIN links}

\* C8 (structural skip): a mapping pair with an empty public or private
\* address gives rise to no desired rule and to no append command, and a run
\* in which no other command failed returns no error of the site; also when
\* every pair of an enabled mapping set is such a pair.
C8_StructuralSkip ==
    \A p \in Procs :
        (site[p] = "netmap" /\ cfg.doc = "ok") =>
            /\ Range(newRules[p]) \cap EmptyPairCommands(BuildLinks(cfg)) = {}
            /\ \A k \in 1..Len(SiteCommands(p)) :
                   SiteCommands(p)[k].text \notin EmptyPairCommands(BuildLinks(cfg))
            /\ (\A k \in 1..Len(Failed(log[p])) :
                    Failed(log[p])[k].text \in EmptyPairCommands(BuildLinks(cfg)))
                   => err[p].kind \notin {"failed to add netmap rules", "failed to get current rules"}

\* the managed rules a site finds in the tables
Managed(s, t) ==
    IF s = "netmap" THEN getCurrentNetmapRules(t, TRUE, TRUE).rules
    ELSE getCurrentNatRules(NatCmd(s), t, TRUE)

\* no canonical key occurs twice among the managed rules of the tables
DuplicateFree(t) ==
    \A s \in {"nat44", "nat66", "netmap"} :
        \A i, j \in 1..Len(Managed(s, t)) :
            i # j => SiteKey(s, Managed(s, t)[i]) # SiteKey(s, Managed(s, t)[j])

\* C9 (no duplicates): when a run starts from tables in which no canonical
\* key occurs twice among the managed rules, every command of the run succeeds
\* and the run returns no error, no canonical key occurs twice among the
\* managed rules of the tables it leaves, whatever the configuration, one that
\* declares a mapping pair or an origin network twice included.
C9_NoDuplicates ==
    \A p \in Procs :
        (pc[p] = "done" /\ Clean(p) /\ DuplicateFree(before[p].tables)) => DuplicateFree(tables)

\* the words of the two rules of a mapping pair
ExpectedPair(iface, pub, priv) ==
    << <<"ip6tables", "-t", "nat", "-A", "POSTROUTING", "-o", iface, "-s", priv,
         "-j", "NETMAP", "--to", pub>>,
       <<"ip6tables", "-t", "nat", "-A", "PREROUTING", "-i", iface, "-d", pub,
         "-j", "NETMAP", "--to", priv>> >>

\* the words of the rules of a mapping set on an interface
ExpectedRules(n, iface) ==
    IF ~n.Enabled \/ iface = "" THEN <<>>
    ELSE Flatten([k \in 1..Len(n.Maps) |->
            IF n.Maps[k].Public = "" \/ n.Maps[k].Private = "" THEN <<>>
            ELSE ExpectedPair(iface, SimpleConcatAddress(n.Maps[k].Public, n.PfxPub),
                                     SimpleConcatAddress(n.Maps[k].Private, n.PfxPriv))])

\* C10 (mapping-rule compilation): for every mapping set of the configuration
\* GenerateIp6tablesRules emits, if the set is enabled and the interface name
\* not empty, for each pair with both addresses non-empty and in pair order,
\* the POSTROUTING rule (-o interface, -s expanded private, --to expanded
\* public) followed by the PREROUTING rule (-i interface, -d expanded public,
\* --to expanded private), and nothing else; a disabled set or an empty
\* interface name emits no rule; the desired rules of the NETMAP pass are
\* these rules, set after set.
C10_MappingRules ==
    \A p \in Procs :
        (site[p] = "netmap" /\ pc[p] = "exec") =>
            /\ \A l \in DOMAIN BuildLinks(cfg) : \A c \in DOMAIN BuildLinks(cfg)[l].Netmap6 :
                   [k \in 1..Len(GenerateIp6tablesRules(BuildLinks(cfg)[l].Netmap6[c], l)) |->
                       Fields(GenerateIp6tablesRules(BuildLinks(cfg)[l].Netmap6[c], l)[k])]
                   = ExpectedRules(BuildLinks(cfg)[l].Netmap6[c], l)
            /\ \E order \in Perms(DOMAIN BuildLinks(cfg)) : \E setOrder \in SetOrders(BuildLinks(cfg)) :
                   [k \in 1..Len(newRules[p]) |-> Fields(newRules[p][k])]
                   = Flatten([k \in 1..Len(NetmapVisits(BuildLinks(cfg), order, setOrder)) |->
                        ExpectedRules(NetmapVisits(BuildLinks(cfg), order, setOrder)[k].netmap,
                                      NetmapVisits(BuildLinks(cfg), order, setOrder)[k].linkName)])

\* the NETMAP pass has compiled a set of three pairs of which two lack an
\* address: two rules
C10_Witness ==
    \E p \in Procs :
        /\ site[p] = "netmap" /\ pc[p] = "exec"
        /\ \E l \in DOMAIN cfg.links : \E c \in DOMAIN cfg.links[l].Netmap6 :
               /\ Len(cfg.links[l].Netmap6[c].Maps) = 3
               /\ cfg.links[l].Netmap6[c].Enabled
               /\ Len(GenerateIp6tablesRules(BuildLinks(cfg)[l].Netmap6[c], l)) = 2
        /\ Len(newRules[p]) = 2

\* the words of the rules of a NAT configuration on an interface: the
\* interface masquerade rule, the clamping rule, one rule per origin network
ExpectedNatRules(cmd, iface, nat) ==
    IF ~nat.present \/ ~nat.Enabled THEN <<>>
    ELSE <<<<cmd, "-t", "nat", "-A", "POSTROUTING", "-o", iface, "-j", "MASQUERADE">>>>
         \o (IF nat.MssClamping /\ nat.Mss > 0
             THEN <<<<cmd, "-t", "mangle", "-A", "FORWARD", "-o", iface, "-p", "tcp",
                      "--tcp-flags", "SYN,RST", "SYN", "-j", "TCPMSS", "--set-mss",
                      ToString(nat.Mss)>>>>
             ELSE <<>>)
         \o [k \in 1..Len(SelectSeq(nat.Origins, LAMBDA o : o # "")) |->
               <<cmd, "-t", "nat", "-A", "POSTROUTING", "-s",
                 SelectSeq(nat.Origins, LAMBDA o : o # "")[k], "-o", iface, "-j", "MASQUERADE">>]

\* the NAT configuration of a link at a site
NatOf(s, l) == IF s = "nat44" THEN l.Nat44 ELSE l.Nat66

\* C11 (NAT-rule compilation): for an enabled NAT configuration on a named
\* interface generateNat44Rules / generateNat66Rules emit exactly one
\* interface masquerade rule, then one MSS-clamping rule if and only if
\* clamping is enabled and the MSS value positive, then one source-scoped
\* masquerade rule per declared (non-empty) origin network; a nil or disabled
\* configuration emits nothing; the desired rules of the NAT pass are these
\* rules, link after link, so there are none when NAT is disabled on every
\* link.
C11_NatRules ==
    \A p \in Procs :
        (site[p] \in {"nat44", "nat66"} /\ pc[p] = "exec") =>
            /\ \A l \in DOMAIN BuildLinks(cfg) \ {""} :
                   /\ [k \in 1..Len(generateNat44Rules(l, BuildLinks(cfg)[l].Nat44)) |->
                         Fields(generateNat44Rules(l, BuildLinks(cfg)[l].Nat44)[k])]
                      = ExpectedNatRules("iptables", l, BuildLinks(cfg)[l].Nat44)
                   /\ [k \in 1..Len(generateNat66Rules(l, BuildLinks(cfg)[l].Nat66)) |->
                         Fields(generateNat66Rules(l, BuildLinks(cfg)[l].Nat66)[k])]
                      = ExpectedNatRules("ip6tables", l, BuildLinks(cfg)[l].Nat66)
            /\ \E order \in Perms(DOMAIN BuildLinks(cfg)) :
                   [k \in 1..Len(newRules[p]) |-> Fields(newRules[p][k])]
                   = Flatten([k \in 1..Len(order) |->
                        IF order[k] = "" THEN <<>>
                        ELSE ExpectedNatRules(NatCmd(site[p]), order[k],
                                              NatOf(site[p], BuildLinks(cfg)[order[k]]))])
            /\ (\A l \in DOMAIN BuildLinks(cfg) : ~NatOf(site[p], BuildLinks(cfg)[l]).Enabled)
                   => newRules[p] = <<>>

\* the NAT44 pass has compiled a configuration with clamping and one origin
\* network: three rules
C11_Witness ==
    \E p \in Procs :
        /\ site[p] = "nat44" /\ pc[p] = "exec"
        /\ "e0" \in DOMAIN cfg.links
        /\ cfg.links["e0"].Nat44.Enabled /\ cfg.links["e0"].Nat44.MssClamping
        /\ cfg.links["e0"].Nat44.Mss > 0
        /\ Len(cfg.links["e0"].Nat44.Origins) = 1
        /\ Len(newRules[p]) = 3

\* the text without the colons it ends with
WithoutTrailingColons(s) ==
    SubSeq(s, 1, Max({0} \cup {k \in 1..Len(s) : CharAt(s, k) # ":"}))

\* C12 (address expansion): SimpleConcatAddress returns the address unchanged
\* when the prefix is empty, and otherwise the prefix without the colons it
\* ends with, one colon, and the address with its CIDR suffix as it was
\* given: address body and suffix together are the address itself.
C12_AddressExpansion ==
    call.fn = "SimpleConcatAddress" =>
        call.result = IF call.args[2] = "" THEN call.args[1]
                      ELSE WithoutTrailingColons(call.args[2]) \o ":" \o call.args[1]

\* the address without its "/n" suffix
AddressBody(a) == IF Contains(a, "/") THEN SubSeq(a, 1, Index(a, "/") - 1) ELSE a

\* the address has no suffix, or one suffix "/n" with n a number from 0 to 128
SuffixInRange(a) ==
    Contains(a, "/") =>
        LET n == SubSeq(a, Index(a, "/") + 1, Len(a))
        IN  /\ Len(n) > 0
            /\ \A i \in 1..Len(n) : DigitValue(CharAt(n, i)) >= 0
            /\ DecimalValue(n, 1, 0) <= 128

\* the places of the text where "::" stands
Compressions(b) == {k \in 1..(Len(b) - 1) : SubSeq(b, k, k + 1) = "::"}

\* every segment is at most 4 hexadecimal characters
SegmentsWellFormed(b) ==
    \A i \in 1..Len(Split(b, ":")) :
        /\ Len(Split(b, ":")[i]) <= 4
        /\ \A j \in 1..Len(Split(b, ":")[i]) : IsHexChar(CharAt(Split(b, ":")[i], j))

\* the segments written in the text
WrittenSegments(b) == Cardinality({i \in 1..Len(Split(b, ":")) : Split(b, ":")[i] # ""})

\* C13 as stated (structural validation): isValidIPv6Address(a) is true if
\* and only if a, without at most one "/n" suffix with 0 <= n <= 128, has a
\* ":", has at most one "::", and resolves, the compression counted, to at
\* most 8 segments of at most 4 hexadecimal characters each.
C13_AtMostEightSegments ==
    call.fn = "isValidIPv6Address" =>
        (call.result <=>
            /\ SuffixInRange(call.args[1])
            /\ Contains(AddressBody(call.args[1]), ":")
            /\ Cardinality(Compressions(AddressBody(call.args[1]))) <= 1
            /\ SegmentsWellFormed(AddressBody(call.args[1]))
            /\ IF Compressions(AddressBody(call.args[1])) # {}
               THEN WrittenSegments(AddressBody(call.args[1])) + 1 <= 8
               ELSE Len(Split(AddressBody(call.args[1]), ":")) <= 8)

\* C13 amended: isValidIPv6Address(a) is true if and only if a, without at
\* most one "/n" suffix with 0 <= n <= 128, has a ":", has at most one "::",
\* has segments of at most 4 hexadecimal characters each, and has exactly 8
\* segments if it has no "::" and at most 7 non-empty segments if it has
\* one; so an address with ":::", with more than one "::" or with a segment
\* of more than 4 characters is rejected.
C13_StructuralValidation ==
    call.fn = "isValidIPv6Address" =>
        /\ call.result <=>
               /\ SuffixInRange(call.args[1])
               /\ Contains(AddressBody(call.args[1]), ":")
               /\ Cardinality(Compressions(AddressBody(call.args[1]))) <= 1
               /\ SegmentsWellFormed(AddressBody(call.args[1]))
               /\ IF Compressions(AddressBody(call.args[1])) # {}
                  THEN WrittenSegments(AddressBody(call.args[1])) <= 7
                  ELSE Len(Split(AddressBody(call.args[1]), ":")) = 8
        /\ (\/ Contains(call.args[1], ":::")
            \/ Cardinality(Compressions(call.args[1])) > 1
            \/ \E i \in 1..Len(Split(AddressBody(call.args[1]), ":")) :
                   Len(Split(AddressBody(call.args[1]), ":")[i]) > 4)
               => ~call.result

\* an address of three segments without "::" has been rejected
C13_Witness ==
    /\ call.fn = "isValidIPv6Address"
    /\ call.args = <<"1:2:3/64">>
    /\ call.result = FALSE

\* the public or the private addresses of the mappings, CIDR suffix removed
SideAddresses(mappings, isPublic) ==
    [i \in 1..Len(mappings) |->
        AddressBody(IF isPublic THEN mappings[i].Public ELSE mappings[i].Private)]

\* the first k segments of the first address, each followed by a colon
CandidatePrefix(addresses, k) == Join(SubSeq(Split(addresses[1], ":"), 1, k), ":") \o ":"

\* the text with the prefix taken off its front
Stripped(a, prefix) == SubSeq(a, Len(prefix) + 1, Len(a))

\* every address starts with the candidate of k segments
Shared(addresses, k) ==
    /\ k <= Len(Split(addresses[1], ":"))
    /\ \A i \in 1..Len(addresses) : HasPrefix(addresses[i], CandidatePrefix(addresses, k))

\* the prefix lengths that qualify when a strictly shorter remainder is asked
QualifyingShorter(addresses) ==
    {k \in {1, 2, 3} :
        /\ Shared(addresses, k)
        /\ \E i \in 1..Len(addresses) :
               Len(Stripped(addresses[i], CandidatePrefix(addresses, k))) < Len(addresses[i])}

\* the prefix lengths that qualify when the remainder, a colon at its front
\* taken off too, must not be empty
QualifyingNonEmpty(addresses) ==
    {k \in {1, 2, 3} :
        /\ Shared(addresses, k)
        /\ \E i \in 1..Len(addresses) :
               Stripped(addresses[i], CandidatePrefix(addresses, k)) \notin {"", ":"}}

\* C14 as stated (prefix inference): for a non-empty list findCommonIPv6Prefix
\* returns the candidate of the first k segments for the largest k in
\* {3, 2, 1} such that every address, CIDR suffix removed, starts with the
\* candidate and stripping it leaves a strictly shorter remainder for at
\* least one address, and the empty prefix when no k qualifies.
C14_StrictlyShorterRemainder ==
    (call.fn = "findCommonIPv6Prefix" /\ Len(call.args[1]) > 0) =>
        call.result =
            IF QualifyingShorter(SideAddresses(call.args[1], call.args[2])) = {} THEN ""
            ELSE CandidatePrefix(SideAddresses(call.args[1], call.args[2]),
                                 Max(QualifyingShorter(SideAddresses(call.args[1], call.args[2]))))

\* C14 amended: for a non-empty list findCommonIPv6Prefix returns the
\* candidate of the first k segments for the largest k in {3, 2, 1} such that
\* every address, CIDR suffix removed, starts with the candidate and, for at
\* least one address, what is left after the candidate and one further colon
\* are stripped is not empty; it returns the empty prefix when no k
\* qualifies; for 2001:db8:1:20:0:0, 2001:db8:1:21:0:0, 2001:db8:1:22:0:0 it
\* returns 2001:db8:1:.
C14_PrefixInference ==
    (call.fn = "findCommonIPv6Prefix" /\ Len(call.args[1]) > 0) =>
        /\ call.result =
               IF QualifyingNonEmpty(SideAddresses(call.args[1], call.args[2])) = {} THEN ""
               ELSE CandidatePrefix(SideAddresses(call.args[1], call.args[2]),
                                    Max(QualifyingNonEmpty(SideAddresses(call.args[1], call.args[2]))))
        /\ SideAddresses(call.args[1], call.args[2])
               = <<"2001:db8:1:20:0:0", "2001:db8:1:21:0:0", "2001:db8:1:22:0:0">>
               => call.result = "2001:db8:1:"

\* the prefix of three segments would leave nothing of the only address: the
\* prefix of two segments has been returned
C14_Witness ==
    /\ call.fn = "findCommonIPv6Prefix"
    /\ call.args = <<<<NetmapMapping("2001:db8:1::/48", "fd00::/48")>>, TRUE>>
    /\ call.result = "2001:db8:"

\* the spaces a line starts with
Indent(line) == Min({i \in 1..Len(line) : CharAt(line, i) # " "} \cup {Len(line) + 1}) - 1

\* the lines under the first line equal to header, as far as they are
\* indented more than it; the empty sequence if there is no such line
Under(lines, header) ==
    IF \A i \in 1..Len(lines) : lines[i] # header THEN <<>>
    ELSE LET h == Min({i \in 1..Len(lines) : lines[i] = header})
         IN  SubSeq(lines, h + 1,
                    Min({j \in (h + 1)..Len(lines) : Indent(lines[j]) <= Indent(header)}
                        \cup {Len(lines) + 1}) - 1)

Has(lines, line) == \E i \in 1..Len(lines) : lines[i] = line

HasEntry(lines, start) == \E i \in 1..Len(lines) : HasPrefix(lines[i], start)

\* the lines of the interface in the document
InterfaceBlock(document, name) == Under(document, "    " \o name \o ":")

\* the interfaces discovered by the scans
DiscoveredInterfaces(scan) ==
    AllInterfaces(scan.interfaces, scan.radvdConfig, scan.netmapRules, scan.nat66Rules)

\* the sections of an interface
SectionNames == {"netmap6", "nat66", "nat44", "radv"}

\* the section is there and has enabled, non-empty content
Substantial(block, section) ==
    /\ Has(block, "      " \o section \o ":")
    /\ HasEntry(Under(block, "      " \o section \o ":"),
                IF section = "netmap6" THEN "          enabled: true" ELSE "        enabled: true")
    /\ section = "netmap6" => HasEntry(Under(block, "      netmap6:"), "          - pair: ")
    /\ section = "radv" => \/ HasEntry(Under(block, "      radv:"), "        - prefix: ")
                           \/ HasEntry(Under(block, "      radv:"), "        - route: ")

\* the section is there, with a marker wherever it has no content
Explicit(block, section) ==
    /\ Has(block, "      " \o section \o ":")
    /\ \/ HasEntry(Under(block, "      " \o section \o ":"),
                   IF section = "netmap6" THEN "          enabled: true" ELSE "        enabled: true")
       \/ HasEntry(Under(block, "      " \o section \o ":"),
                   IF section = "netmap6" THEN "          enabled: false" ELSE "        enabled: false")
    /\ section = "netmap6" =>
           \/ HasEntry(Under(block, "      netmap6:"), "          - pair: ")
           \/ Has(Under(block, "      netmap6:"), "          maps: []")
    /\ section = "radv" =>
           /\ \/ HasEntry(Under(block, "      radv:"), "        - prefix: ")
              \/ Has(Under(block, "      radv:"), "        prefixes: []")
           /\ \/ HasEntry(Under(block, "      radv:"), "        - route: ")
              \/ Has(Under(block, "      radv:"), "        routes: []")

\* C15 (document rendering): in slim mode generateConfigYAML emits an
\* interface only with at least one section, and each of the sections
\* netmap6, nat66, nat44, radv only with enabled, non-empty content; in
\* non-slim mode every discovered interface is emitted with all four
\* sections, with the markers "enabled: false", "maps: []", "prefixes: []",
\* "routes: []" where there is no content.
C15_DocumentRendering ==
    call.fn = "generateConfigYAML" =>
        \A name \in DiscoveredInterfaces(call.args[1]) :
            IF call.args[2]
            THEN Has(call.result, "    " \o name \o ":") =>
                    /\ \E section \in SectionNames :
                           Has(InterfaceBlock(call.result, name), "      " \o section \o ":")
                    /\ \A section \in SectionNames :
                           Has(InterfaceBlock(call.result, name), "      " \o section \o ":")
                               => Substantial(InterfaceBlock(call.result, name), section)
            ELSE /\ Has(call.result, "    " \o name \o ":")
                 /\ \A section \in SectionNames :
                        Explicit(InterfaceBlock(call.result, name), section)

\* at most one invocation is between its start and its return
Serialized == Cardinality({p \in DOMAIN pc : pc[p] \notin {"idle", "done"}}) <= 1

\* some rule is in a table twice
PresentTwice ==
    \E id \in TableIds :
        \E i, j \in 1..Len(tables[id]) : i < j /\ tables[id][i] = tables[id][j]

\* a NETMAP rule is in the tables twice
NetmapPresentTwice ==
    \E i, j \in 1..Len(Managed("netmap", tables)) :
        i # j /\ Managed("netmap", tables)[i] = Managed("netmap", tables)[j]

\* C16 (no internal serialization): two invocations with the same
\* configuration on the same tables are not serialized by the program: they
\* can both list the tables before either appends and both append the same
\* missing rule, so that the rule is present twice (C16_Witness is such a
\* state); when the two passes run one after the other, no rule is ever
\* present twice.
C16_NoInternalSerialization == ([]Serialized) => [](~PresentTwice)

\* both invocations have returned without error, every command of both
\* succeeded, and a rule is present twice
C16_Witness ==
    /\ DOMAIN pc = Invocations
    /\ \A p \in Invocations :
           /\ pc[p] = "done"
           /\ err[p] = NoErr
           /\ \A i \in 1..Len(log[p]) : log[p][i].ok
           /\ \E i \in 1..Len(log[p]) : log[p][i].kind = "add" /\ log[p][i].site = "netmap"
    /\ NetmapPresentTwice

\* the fields the key is made of: chain and target without regard to letter
\* case, direction, interface, the address the direction makes relevant, and
\* the target argument
KeyFields(rule) ==
    [chain     |-> ToLower(RuleTuple(rule).chain),
     direction |-> RuleTuple(rule).direction,
     interface |-> RuleTuple(rule).interface,
     address   |-> RuleTuple(rule).address,
     target    |-> ToLower(RuleTuple(rule).target),
     argument  |-> RuleTuple(rule).argument]

\* C17 (canonical key fields): the NETMAP key of a rule depends only on its
\* chain (case-insensitive), direction, interface, the address relevant to
\* the direction, target (case-insensitive) and target argument: two rules
\* that agree on these fields get equal keys, whether they are desired rule
\* texts or come from the -S or from the -L -n listing.
C17_CanonicalKeyFields ==
    call.fn = "normalizeRule" =>
        (KeyFields(call.args[2]) = KeyFields(call.args[3]) => call.result[1] = call.result[2])

\* the expanded addresses of the k-th pair of a mapping set
ExpandedPublic(n, k) == SimpleConcatAddress(n.Maps[k].Public, n.PfxPub)

ExpandedPrivate(n, k) == SimpleConcatAddress(n.Maps[k].Private, n.PfxPriv)

\* the address is empty or fails the structural validation
NoAddress(addr) == addr = "" \/ ~isValidIPv6Address(addr)

\* the rules a list holds for the k-th pair of the mapping set
RulesOfPair(rules, n, iface, k) ==
    {i \in 1..Len(rules) :
        rules[i] \in {PostroutingRule(iface, ExpandedPrivate(n, k), ExpandedPublic(n, k)),
                      PreroutingRule(iface, ExpandedPublic(n, k), ExpandedPrivate(n, k))}}

\* C18 (validation in the compiler): GenerateIp6tablesRules emits no rule
\* for a mapping pair whose expanded public or expanded private address is
\* empty or fails the IPv6 structural validation.
C18_ValidationInCompiler ==
    call.fn = "GenerateIp6tablesRules" =>
        \A k \in 1..Len(call.args[1].Maps) :
            (NoAddress(ExpandedPublic(call.args[1], k)) \/ NoAddress(ExpandedPrivate(call.args[1], k)))
                => RulesOfPair(call.result, call.args[1], call.args[2], k) = {}

\* the rules of the table a command works on, as they were listed when the
\* run started
ListedFor(p, text) ==
    {LineRule(before[p].tables[CmdTable(CmdArgs(text))][k]) :
        k \in 1..Len(before[p].tables[CmdTable(CmdArgs(text))])}

\* the delete commands of the run
Deletions(p) == SelectSeq(log[p], LAMBDA e : e.kind = "del")

\* C19 (raw text retained for deletion): every delete command a site invokes
\* names a live rule exactly as it was listed: its chain and all the match
\* arguments of the listed rule (protocol, interface, source, destination)
\* and its target argument are in the command, only the verb is -D.
C19_RawTextForDeletion ==
    \A p \in Procs :
        \A i \in 1..Len(Deletions(p)) :
            CmdRule(CmdArgs(Deletions(p)[i].text)) \in ListedFor(p, Deletions(p)[i].text)

\* the listings the NETMAP site has invoked in the run
NetmapListings(p) == SelectSeq(log[p], LAMBDA e : e.site = "netmap" /\ e.kind = "list")

\* the listing without which the site cannot know the current rules
FatalListing(e) ==
    /\ e.kind = "list"
    /\ \/ e.site \in {"nat44", "nat66"} /\ e.text = NatCmd(e.site) \o " -t nat -S"
       \/ e.site = "netmap" /\ e.text = "ip6tables -t nat -L -n"

\* the NETMAP scanner lists with -S first and with -L -n only after a -S
\* listing that failed or held no NETMAP rule
FallbackOnlyWhenNeeded(p) ==
    /\ Len(NetmapListings(p)) <= 2
    /\ Len(NetmapListings(p)) >= 1 => NetmapListings(p)[1].text = "ip6tables -t nat -S"
    /\ Len(NetmapListings(p)) = 2 =>
           /\ NetmapListings(p)[2].text = "ip6tables -t nat -L -n"
           /\ \/ ~NetmapListings(p)[1].ok
              \/ parseNetmapRulesFromSaves(ListSave(before[p].tables, "ip6tables nat")) = <<>>
    /\ (Len(NetmapListings(p)) = 1 /\ pc[p] # "netmap") =>
           /\ NetmapListings(p)[1].ok
           /\ parseNetmapRulesFromSaves(ListSave(before[p].tables, "ip6tables nat")) # <<>>

\* C20 (scan failure is fatal): the NETMAP scanner uses the -S listing and
\* falls back to the -L -n listing only if the first fails or holds no NETMAP
\* rule; when the listing a site depends on fails (the nat-table listing of
\* a NAT site, the fallback listing of the NETMAP site), the site returns an
\* error and invokes no append and no delete command.
C20_ScanFailureFatal ==
    \A p \in Procs :
        /\ FallbackOnlyWhenNeeded(p)
        /\ \A i \in 1..Len(log[p]) :
               (FatalListing(log[p][i]) /\ ~log[p][i].ok) =>
                   /\ pc[p] = "done"
                   /\ err[p] # NoErr
                   /\ err[p].site = log[p][i].site
                   /\ \A j \in 1..Len(log[p]) :
                          log[p][j].site = log[p][i].site => log[p][j].kind = "list"

\* the fallback listing of the NETMAP site has failed in a run whose
\* configuration asks for NETMAP rules
C20_Witness ==
    \E p \in Procs :
        /\ \E i \in 1..Len(log[p]) :
               log[p][i].site = "netmap" /\ FatalListing(log[p][i]) /\ ~log[p][i].ok
        /\ \E l \in DOMAIN BuildLinks(cfg) : \E n \in DOMAIN BuildLinks(cfg)[l].Netmap6 :
               GenerateIp6tablesRules(BuildLinks(cfg)[l].Netmap6[n], l) # <<>>
        /\ err[p].kind = "failed to get current rules"

\* the rules of a table whose listing line mentions one of the words, as
\* full commands with the verb given
Mentioning(cmd, table, words, t, verb) ==
    LET lines == t[cmd \o " " \o table]
        text(parts) ==
            Join(<<cmd, "-t", table, verb>> \o SubSeq(parts, 2, Len(parts)), " ")
    IN  {text(Fields(lines[k])) :
            k \in {j \in 1..Len(lines) : \E w \in words : Contains(lines[j], w)}}

\* the mangle listing of the site worked in this run
MangleListed(p, s) ==
    \E i \in 1..Len(log[p]) :
        /\ log[p][i].site = s /\ log[p][i].kind = "list" /\ log[p][i].ok
        /\ log[p][i].text = NatCmd(s) \o " -t mangle -S"

\* what the NAT site observed when the run started
ObservedNat(p, s, verb) ==
    Mentioning(NatCmd(s), "nat", {"MASQUERADE", "SNAT", "DNAT"}, before[p].tables, verb)
    \cup (IF MangleListed(p, s)
          THEN Mentioning(NatCmd(s), "mangle", {"TCPMSS"}, before[p].tables, verb)
          ELSE {})

\* the NAT site has listed its tables and is through with its deletions
DeletionsDone(p, s) ==
    /\ \E i \in 1..Len(log[p]) :
           /\ log[p][i].site = s /\ log[p][i].kind = "list" /\ log[p][i].ok
           /\ log[p][i].text = NatCmd(s) \o " -t nat -S"
    /\ site[p] = s => (pc[p] # "exec" \/ \A k \in 1..Len(queue[p]) : queue[p][k].kind # "del")

\* the delete commands the site has invoked in the run
DeletedBy(p, s) ==
    {log[p][i].text : i \in {j \in 1..Len(log[p]) : log[p][j].site = s /\ log[p][j].kind = "del"}}

\* the normalized texts of the rules the configuration asks the site for
DesiredNatKeys(s) ==
    {NatNormalizeRule(r) : r \in Range(NatNewRules(s, BuildLinks(cfg),
                                                   CHOOSE o \in Perms(DOMAIN cfg.links) : TRUE))}

\* C21 (scope of NAT removal): on every NAT pass each observed nat-table rule
\* mentioning MASQUERADE, SNAT or DNAT and each observed mangle-table rule
\* mentioning TCPMSS is submitted for deletion unless its normalized text is
\* that of a rule generated from the configuration, whatever its interface,
\* chain or origin; the NAT site deletes no rule outside those listings.
C21_ScopeOfNatRemoval ==
    \A p \in Procs : \A s \in {"nat44", "nat66"} :
        /\ DeletedBy(p, s) \subseteq ObservedNat(p, s, "-D")
        /\ DeletionsDone(p, s) =>
               \A r \in ObservedNat(p, s, "-A") :
                   NatNormalizeRule(r) \notin DesiredNatKeys(s)
                       => Replace1(r, "-A ", "-D ") \in DeletedBy(p, s)

\* a rule on an interface the configuration does not name has been deleted
C21_Witness ==
    \E p \in Procs : \E i \in 1..Len(log[p]) :
        /\ log[p][i].site \in {"nat44", "nat66"}
        /\ log[p][i].kind = "del" /\ log[p][i].ok
        /\ Contains(log[p][i].text, "e9")
        /\ "e9" \notin DOMAIN cfg.links

\* C22 (synthesis round trip of addresses): for every scanned mapping address
\* and the prefix inferred for its address set, when the prefix is non-empty
\* the relative part written into the pair is non-empty and
\* SimpleConcatAddress of the relative part and the prefix is the scanned
\* address again.
C22_SynthesisRoundTrip ==
    call.fn = "removePrefix" =>
        \A i \in 1..Len(call.args[1]) :
            /\ call.args[2].PublicPrefix # "" =>
                   /\ call.result[i].publicPath # ""
                   /\ SimpleConcatAddress(call.result[i].publicPath, call.args[2].PublicPrefix)
                          = call.args[1][i].Public
            /\ call.args[2].PrivatePrefix # "" =>
                   /\ call.result[i].privatePath # ""
                   /\ SimpleConcatAddress(call.result[i].privatePath, call.args[2].PrivatePrefix)
                          = call.args[1][i].Private

\* the pairs the outbound rules yield, and the pairs the inbound rules yield
OutboundPairs(rules) ==
    {NetmapMapping(rules[i].ToAddress, rules[i].Source) :
        i \in {j \in 1..Len(rules) : /\ rules[j].Direction = "POSTROUTING"
                                      /\ rules[j].ToAddress # "" /\ rules[j].Source # ""}}

InboundPairs(rules) ==
    {NetmapMapping(rules[i].Source, rules[i].ToAddress) :
        i \in {j \in 1..Len(rules) : /\ rules[j].Direction = "PREROUTING"
                                      /\ rules[j].ToAddress # "" /\ rules[j].Source # ""}}

\* C23 (pairing preference): extractNetmapMappings derives the pairs from
\* the outbound (POSTROUTING) rules whenever an outbound rule yields a pair,
\* and from the inbound (PREROUTING) rules only when no outbound rule does;
\* the result never mixes pairs of the two origins.
C23_PairingPreference ==
    call.fn = "extractNetmapMappings" =>
        IF OutboundPairs(call.args[3]) # {}
        THEN Range(call.result) = OutboundPairs(call.args[3])
        ELSE /\ Range(call.result) \subseteq InboundPairs(call.args[3])
             /\ InboundPairs(call.args[3]) # {} => call.result # <<>>

\* an interface with an outbound rule of one pair and an inbound rule of
\* another has been scanned
C23_Witness ==
    /\ call.fn = "extractNetmapMappings"
    /\ OutboundPairs(call.args[3]) # {}
    /\ InboundPairs(call.args[3]) # {}
    /\ \A m \in InboundPairs(call.args[3]) : m.Private \notin {o.Private : o \in OutboundPairs(call.args[3])}
    /\ call.result # <<>>

\* the pairs of a mapping set that the compiler emits rules for, expanded
CompiledPairs(n) ==
    {NetmapMapping(ExpandedPublic(n, k), ExpandedPrivate(n, k)) :
        k \in {j \in 1..Len(n.Maps) : n.Maps[j].Public # "" /\ n.Maps[j].Private # ""}}

\* the pairs the inbound rules stand for: the matched destination is the
\* public address, the translation target the private one
InboundMeaning(rules) ==
    {NetmapMapping(rules[i].Destination, rules[i].ToAddress) :
        i \in {j \in 1..Len(rules) : rules[j].Direction = "PREROUTING"}}

\* C24 (pair reconstruction round trip): scanning the rules the compiler
\* emits for a set of mapping pairs and running extractNetmapMappings gives
\* back exactly the expanded pairs; and a pair derived from an inbound rule
\* has the rule's matched destination as public address and the rule's
\* translation target as private address.
C24_PairReconstruction ==
    call.fn = "extractNetmapMappings" =>
        /\ call.args[1].n.Enabled => Range(call.result) = CompiledPairs(call.args[1].n)
        /\ OutboundPairs(call.args[3]) = {} => Range(call.result) = InboundMeaning(call.args[3])

\* the pairs reconstructed for an interface of the scan, in some order
PairsInSomeOrder(scan, iface) ==
    extractNetmapMappings(scan.netmapRules[iface],
                          CHOOSE order \in Perms(SourcesOf(scan)) : TRUE)

ReconstructedPairs(scan, iface) == Range(PairsInSomeOrder(scan, iface))

\* the advertisement routes discovered for the interface whose prefix is
\* the address
RoutesFor(scan, iface, address) ==
    IF iface \notin DOMAIN scan.radvdConfig THEN {}
    ELSE {j \in 1..Len(scan.radvdConfig[iface].Routes) :
             scan.radvdConfig[iface].Routes[j].Prefix = address}

\* the entry of the maps list for a pair, with the given relative addresses
ExpectedEntry(scan, iface, m, publicPath, privatePath) ==
    "          - pair: [\"" \o publicPath \o "\", \"" \o privatePath \o "\", \""
    \o (IF RoutesFor(scan, iface, m.Public) = {} THEN "high"
        ELSE scan.radvdConfig[iface].Routes[Min(RoutesFor(scan, iface, m.Public))].Preference)
    \o "\", "
    \o ToString(IF RoutesFor(scan, iface, m.Public) = {} THEN 3600
                ELSE scan.radvdConfig[iface].Routes[Min(RoutesFor(scan, iface, m.Public))].Lifetime)
    \o "]"

\* the entries of the maps list of the interface in the document
MapsEntries(document, iface) ==
    SelectSeq(Under(InterfaceBlock(document, iface), "      netmap6:"),
              LAMBDA line : HasPrefix(line, "          - pair: "))

\* how often the line occurs in the list
Occurrences(lines, line) == Cardinality({i \in 1..Len(lines) : lines[i] = line})

\* C25 (route correlation): for every reconstructed pair the synthesized maps
\* list holds exactly one entry; it carries the preference and lifetime of
\* the first discovered advertisement route whose prefix is the pair's public
\* address exactly, and "high" / 3600 when no route matches or the interface
\* has no advertisement configuration.
C25_RouteCorrelation ==
    call.fn = "generateConfigYAML" =>
        \A iface \in DOMAIN call.args[1].netmapRules :
            /\ Len(MapsEntries(call.result, iface))
                   = Cardinality(ReconstructedPairs(call.args[1], iface))
            /\ \A m \in ReconstructedPairs(call.args[1], iface) :
                   Occurrences(MapsEntries(call.result, iface),
                               ExpectedEntry(call.args[1], iface, m,
                                   removePrefix(m.Public,
                                       extractNetmapPrefixes(PairsInSomeOrder(call.args[1], iface)).PublicPrefix),
                                   removePrefix(m.Private,
                                       extractNetmapPrefixes(PairsInSomeOrder(call.args[1], iface)).PrivatePrefix)))
                       = 1

\* a document with an entry that carries the values of a discovered route
\* and an entry that carries the defaults
C25_Witness ==
    /\ call.fn = "generateConfigYAML"
    /\ \E iface \in DOMAIN call.args[1].netmapRules :
           /\ \E m \in ReconstructedPairs(call.args[1], iface) :
                  RoutesFor(call.args[1], iface, m.Public) # {}
           /\ \E m \in ReconstructedPairs(call.args[1], iface) :
                  RoutesFor(call.args[1], iface, m.Public) = {}
           /\ Len(MapsEntries(call.result, iface)) = 2

\* what a flag written as word says, given the default for an absent key
FlagMeaning(word, default) == IF word = "" THEN default ELSE word = "on"

\* C26 (prefix flag parsing): for each prefix sub-block of an interface block
\* parsePrefixBlocks sets OnLink, Autonomous and RouterAddr to true if the
\* key AdvOnLink / AdvAutonomous / AdvRouterAddr has the value "on", to false
\* if it has the value "off", and to the defaults (true, true, false) if the
\* key is absent.
C26_PrefixFlagParsing ==
    call.fn = "parsePrefixBlocks" =>
        /\ Len(call.result) = Len(call.args[1])
        /\ \A k \in 1..Len(call.args[1]) :
               /\ call.result[k].Prefix = call.args[1][k].Prefix
               /\ call.result[k].OnLink = FlagMeaning(call.args[1][k].OnLink, TRUE)
               /\ call.result[k].Autonomous = FlagMeaning(call.args[1][k].Autonomous, TRUE)
               /\ call.result[k].RouterAddr = FlagMeaning(call.args[1][k].RouterAddr, FALSE)

\* tokens that stand for an unset interface and for all addresses
UnsetInterfaces == {"any", "*", "--"}

AllAddresses == {"anywhere", "0.0.0.0/0", "::/0"}

\* the values a rule text gives after one of the flags
ValuesAfter(rule, flags) ==
    {Fields(rule)[i + 1] : i \in {j \in 1..(Len(Fields(rule)) - 1) : Fields(rule)[j] \in flags}}

\* C27 (unset tokens): every rule the scanners produce
\* (parseNetmapRuleFromListLine, parseNetmapRuleForConfig,
\* parseNat66RuleForConfig) has an interface that is never "any", "*" or "--"
\* and a source and a destination that are never "anywhere", "0.0.0.0/0" or
\* "::/0": such tokens leave the field unset; and no mapping pair is
\* reconstructed with such a literal as an address.
C27_UnsetTokens ==
    /\ call.fn = "parseNetmapRulesFromList" =>
           \A k \in 1..Len(call.result) :
               /\ ValuesAfter(call.result[k], {"-i", "-o"}) \cap UnsetInterfaces = {}
               /\ ValuesAfter(call.result[k], {"-s", "-d"}) \cap AllAddresses = {}
    /\ call.fn \in {"parseNetmapRulesForConfig", "parseNat66RulesForConfig"} =>
           \A k \in 1..Len(call.result) :
               /\ call.result[k].Interface \notin UnsetInterfaces
               /\ call.result[k].Source \notin AllAddresses
               /\ call.result[k].Destination \notin AllAddresses
    /\ call.fn = "extractNetmapMappings" =>
           \A k \in 1..Len(call.result) :
               /\ call.result[k].Public \notin AllAddresses
               /\ call.result[k].Private \notin AllAddresses

\* the settings a declaration of radvd.conf states, with the defaults for the
\* keys that have no line
StatedSettings(d) ==
    [AdvManagedFlag     |-> d.Managed = "on",
     MinRtrAdvInterval  |-> IF d.Intervals THEN 10 ELSE 30,
     MaxRtrAdvInterval  |-> IF d.Intervals THEN 20 ELSE 60,
     AdvDefaultLifetime |-> IF d.Lifetime >= 0 THEN d.Lifetime ELSE 180]

\* C28 (block parsing): parseRadvdConfig records every "interface <name>"
\* declaration with exactly the settings of its block, which runs from the
\* first line with "{" to the first line at which the count of "{" minus "}"
\* is back at zero: keys that are absent have the defaults MinRtrAdvInterval
\* 30, MaxRtrAdvInterval 60, AdvDefaultLifetime 180 and managed flag off, and
\* the settings of lines after the closing line are never attributed to it.
C28_BlockParsing ==
    call.fn = "parseRadvdConfig" =>
        /\ DOMAIN call.result = {call.args[1][k].Name : k \in 1..Len(call.args[1])}
        /\ \A k \in 1..Len(call.args[1]) :
               \A key \in DOMAIN StatedSettings(call.args[1][k]) :
                   call.result[call.args[1][k].Name][key] = StatedSettings(call.args[1][k])[key]

\* two interfaces are declared, the first with a nested sub-block before its
\* settings and with keys absent, the second with other settings after the
\* closing line of the first
C28_Witness ==
    /\ call.fn = "parseRadvdConfig"
    /\ Len(call.args[1]) = 2
    /\ call.args[1][1].Sub = "prefix first"
    /\ ~call.args[1][1].Intervals
    /\ call.args[1][1].Lifetime = -1
    /\ call.result["e0"].MinRtrAdvInterval = 30
    /\ call.result["e1"].MinRtrAdvInterval = 10
    /\ call.result["e0"].AdvDefaultLifetime = 180
    /\ call.result["e1"].AdvDefaultLifetime = 45

\* the pairs of a set that carry an advertisement annotation and whose
\* expanded public address passes the structural validation
Advertised(n) ==
    {k \in 1..Len(n.Maps) : n.Maps[k].Radv.present /\ isValidIPv6Address(ExpandedPublic(n, k))}

\* C29 (advertisement-route generation): for an enabled mapping set
\* GetRadvRoutes returns exactly one route per pair that carries an
\* advertisement annotation and whose expanded public address passes the
\* structural validation, in the order of the pairs: the prefix is the
\* expanded public address, preference and lifetime are those of the
\* annotation; pairs with an invalid expanded public address are left out
\* without an error, and a disabled set yields no route.
C29_AdvertisementRoutes ==
    call.fn = "GetRadvRoutes" =>
        /\ ~call.args[1].Enabled => call.result = <<>>
        /\ call.args[1].Enabled =>
               /\ Len(call.result) = Cardinality(Advertised(call.args[1]))
               /\ \A j \in 1..Len(call.result) :
                      /\ call.result[j].Prefix
                            = ExpandedPublic(call.args[1], Kth(Advertised(call.args[1]), j))
                      /\ call.result[j].Preference
                            = call.args[1].Maps[Kth(Advertised(call.args[1]), j)].Radv.Preference
                      /\ call.result[j].Lifetime
                            = call.args[1].Maps[Kth(Advertised(call.args[1]), j)].Radv.Lifetime

\* an enabled set with annotated pairs of which some have an invalid public
\* address, and with pairs without annotation: routes came out for the valid
\* annotated pairs only
C29_Witness ==
    /\ call.fn = "GetRadvRoutes"
    /\ call.args[1].Enabled
    /\ \E k \in 1..Len(call.args[1].Maps) :
           call.args[1].Maps[k].Radv.present /\ k \notin Advertised(call.args[1])
    /\ \E k \in 1..Len(call.args[1].Maps) : ~call.args[1].Maps[k].Radv.present
    /\ Len(call.result) >= 2
    /\ call.result[1] = [Prefix |-> "2001:db8:1::/96", Preference |-> "high", Metric |-> 0,
                           Lifetime |-> 1800]

\* the place of a stage in runNormalFlow, 0 for no stage
StageNo(s) ==
    CASE s = "nat44" -> 1 [] s = "nat66" -> 2 [] s = "netmap" -> 3 [] s = "radv" -> 4
      [] OTHER -> 0

\* the stages that have invoked a command in the run
StagesInvoked(p) == {StageNo(log[p][k].site) : k \in 1..Len(log[p])}

\* the last stage the run of p has entered, 0 before the first
StageEntered(p) ==
    CASE pc[p] \in {"nat44", "nat66", "netmap", "radv"} -> StageNo(pc[p]) - 1
      [] pc[p] = "exec" -> StageNo(site[p])
      [] pc[p] = "done" /\ err[p] = NoErr -> 4
      [] pc[p] = "done" /\ err[p] # NoErr -> StageNo(err[p].site)
      [] OTHER -> 0

RECURSIVE Replayed(_, _, _)
\* the tables t after the commands of the log l that succeeded, from the
\* i-th entry on
Replayed(t, l, i) ==
    IF i > Len(l) THEN t
    ELSE Replayed(IF l[i].kind # "list" /\ l[i].ok THEN CmdEffect(t, l[i].text) ELSE t, l, i + 1)

\* C30 (stage ordering): runNormalFlow applies the stages in the fixed order
\* NAT44, NAT66, NETMAP, advertisement configuration; when a stage returns
\* an error no later stage invokes a command or a write and the run returns
\* that error; and every mutation made by the earlier stages and by the
\* earlier commands of the failing stage remains in the live tables: nothing
\* is rolled back.
C30_StageOrdering ==
    \A p \in Procs :
        pc[p] # "idle" =>
            \* the commands come stage after stage, no stage left out
            /\ \A i, j \in 1..Len(log[p]) :
                   i < j => StageNo(log[p][i].site) <= StageNo(log[p][j].site)
            /\ StagesInvoked(p) = 1..(IF StageEntered(p) > 3 THEN 3 ELSE StageEntered(p))
            \* the advertisement configuration is written by the last stage
            \* only, when it returns no error
            /\ radvd = before[p].radvd + (IF pc[p] = "done" /\ err[p] = NoErr THEN 1 ELSE 0)
            \* the tables hold what the commands invoked so far have made
            /\ tables = Replayed(before[p].tables, log[p], 1)

\* the NETMAP stage has returned an error after the NAT stages and the
\* NETMAP stage itself changed the tables: the changes are there and the
\* advertisement configuration was not written
C30_Witness ==
    \E p \in Procs :
        /\ pc[p] = "done"
        /\ err[p].site = "netmap"
        /\ \E k \in 1..Len(log[p]) :
               log[p][k].site = "nat44" /\ log[p][k].kind = "add" /\ log[p][k].ok
        /\ \E k \in 1..Len(log[p]) :
               log[p][k].site = "netmap" /\ log[p][k].kind = "add" /\ log[p][k].ok
        /\ \E k \in 1..Len(log[p]) :
               log[p][k].site = "netmap" /\ log[p][k].kind = "add" /\ ~log[p][k].ok
        /\ tables # before[p].tables
        /\ radvd = before[p].radvd

====
